---- MODULE Spec2Model ----
(***************************************************************************)
(* Authorization gateway sidecar: the reverse-proxy Handler that runs the  *)
(* coarse and the fine-grained check concurrently, the check functions     *)
(* themselves (CheckCoarse, CheckCoarseAccess, CheckFineGrain,             *)
(* CheckPlainIdAccess), the pattern matcher and the JSON-path extractor,   *)
(* and the egress proxy's Handler with its token storage.                  *)
(*                                                                         *)
(* Go strings are TLA+ strings; characters are strings of length one.      *)
(* Go's (value, error) results are records with an err field, Nil standing *)
(* for the nil error.  A Go pointer that may be nil is a sequence of       *)
(* length at most one.                                                     *)
(***************************************************************************)
EXTENDS Integers, Sequences, FiniteSets, TLC

(***************************************************************************)
(* The package "strings", as far as the code uses it.                      *)
(***************************************************************************)
CharAt(s, i) == SubSeq(s, i, i)

HasPrefix(s, p) == Len(s) >= Len(p) /\ SubSeq(s, 1, Len(p)) = p

HasSuffix(s, p) == Len(s) >= Len(p) /\ SubSeq(s, Len(s) - Len(p) + 1, Len(s)) = p

TrimPrefix(s, p) == IF HasPrefix(s, p) THEN SubSeq(s, Len(p) + 1, Len(s)) ELSE s

TrimSuffix(s, p) == IF HasSuffix(s, p) THEN SubSeq(s, 1, Len(s) - Len(p)) ELSE s

RECURSIVE TrimLeftSpace(_)
TrimLeftSpace(s) ==
    IF Len(s) > 0 /\ CharAt(s, 1) = " " THEN TrimLeftSpace(SubSeq(s, 2, Len(s))) ELSE s

RECURSIVE TrimRightSpace(_)
TrimRightSpace(s) ==
    IF Len(s) > 0 /\ CharAt(s, Len(s)) = " "
    THEN TrimRightSpace(SubSeq(s, 1, Len(s) - 1))
    ELSE s

TrimSpace(s) == TrimRightSpace(TrimLeftSpace(s))

\* strings.Index: the 1-based position of the first occurrence of sep in s, 0 if none
\* (Go's -1).
Index(s, sep) ==
    LET hits == {i \in 1..(Len(s) - Len(sep) + 1) : SubSeq(s, i, i + Len(sep) - 1) = sep}
    IN  IF hits = {} THEN 0 ELSE CHOOSE i \in hits : \A j \in hits : i <= j

\* strings.LastIndex, 1-based, 0 if none.
LastIndex(s, sep) ==
    LET hits == {i \in 1..(Len(s) - Len(sep) + 1) : SubSeq(s, i, i + Len(sep) - 1) = sep}
    IN  IF hits = {} THEN 0 ELSE CHOOSE i \in hits : \A j \in hits : i >= j

Contains(s, sep) == Index(s, sep) # 0

\* strings.Split for a non-empty separator: Split("", "/") is <<"">>.
RECURSIVE Split(_, _)
Split(s, sep) ==
    LET i == Index(s, sep)
    IN  IF i = 0
        THEN <<s>>
        ELSE <<SubSeq(s, 1, i - 1)>> \o Split(SubSeq(s, i + Len(sep), Len(s)), sep)

ToUpperChar(c) ==
    CASE c = "a" -> "A" [] c = "b" -> "B" [] c = "c" -> "C" [] c = "d" -> "D"
      [] c = "e" -> "E" [] c = "f" -> "F" [] c = "g" -> "G" [] c = "h" -> "H"
      [] c = "i" -> "I" [] c = "j" -> "J" [] c = "k" -> "K" [] c = "l" -> "L"
      [] c = "m" -> "M" [] c = "n" -> "N" [] c = "o" -> "O" [] c = "p" -> "P"
      [] c = "q" -> "Q" [] c = "r" -> "R" [] c = "s" -> "S" [] c = "t" -> "T"
      [] c = "u" -> "U" [] c = "v" -> "V" [] c = "w" -> "W" [] c = "x" -> "X"
      [] c = "y" -> "Y" [] c = "z" -> "Z" [] OTHER -> c

RECURSIVE ToUpper(_)
ToUpper(s) ==
    IF Len(s) = 0 THEN s ELSE ToUpperChar(CharAt(s, 1)) \o ToUpper(SubSeq(s, 2, Len(s)))

ToLowerChar(c) ==
    CASE c = "A" -> "a" [] c = "B" -> "b" [] c = "C" -> "c" [] c = "D" -> "d"
      [] c = "E" -> "e" [] c = "F" -> "f" [] c = "G" -> "g" [] c = "H" -> "h"
      [] c = "I" -> "i" [] c = "J" -> "j" [] c = "K" -> "k" [] c = "L" -> "l"
      [] c = "M" -> "m" [] c = "N" -> "n" [] c = "O" -> "o" [] c = "P" -> "p"
      [] c = "Q" -> "q" [] c = "R" -> "r" [] c = "S" -> "s" [] c = "T" -> "t"
      [] c = "U" -> "u" [] c = "V" -> "v" [] c = "W" -> "w" [] c = "X" -> "x"
      [] c = "Y" -> "y" [] c = "Z" -> "z" [] OTHER -> c

RECURSIVE ToLower(_)
ToLower(s) ==
    IF Len(s) = 0 THEN s ELSE ToLowerChar(CharAt(s, 1)) \o ToLower(SubSeq(s, 2, Len(s)))

(***************************************************************************)
(* Pattern matcher (config.go).                                            *)
(***************************************************************************)
ExactBonus == 1000
LiteralBonus == 5
WildcardBonus == 1

\* normalizePattern trims surrounding [ ] if present
normalizePattern(raw) ==
    LET s == TrimSpace(raw)
    IN  IF HasPrefix(s, "[") /\ HasSuffix(s, "]")
        THEN TrimSuffix(TrimPrefix(s, "["), "]")
        ELSE s

\* splitMethod: (patternMethod, has)
splitMethod(p) ==
    LET i == LastIndex(p, ":")
    IN  IF i # 0
        THEN [pattern |-> SubSeq(p, 1, i - 1),
              method  |-> ToUpper(TrimSpace(SubSeq(p, i + 1, Len(p)))),
              has     |-> TRUE]
        ELSE [pattern |-> p, method |-> "", has |-> FALSE]

\* pathMatchLoop in which "**" needs a path segment of its own to match
RECURSIVE pathMatchLoopNeedsSegment(_, _, _, _)
pathMatchLoopNeedsSegment(ps, ss, i, specificity) ==
    IF i > Len(ps)
    THEN IF i - 1 # Len(ss)
         THEN [matched |-> FALSE, spec |-> 0]
         ELSE [matched |-> TRUE, spec |-> specificity]
    ELSE IF i > Len(ss)
    THEN [matched |-> FALSE, spec |-> 0]
    ELSE IF ps[i] = "**"
    THEN [matched |-> TRUE, spec |-> specificity + WildcardBonus]
    ELSE IF ps[i] = "*"
    THEN pathMatchLoopNeedsSegment(ps, ss, i + 1, specificity + WildcardBonus)
    ELSE IF ps[i] # ss[i]
    THEN [matched |-> FALSE, spec |-> 0]
    ELSE pathMatchLoopNeedsSegment(ps, ss, i + 1, specificity + LiteralBonus)

\* The loop of pathMatch from position i (= j: both indices advance together),
\* with the specificity accumulated so far.
RECURSIVE pathMatchLoop(_, _, _, _)
pathMatchLoop(ps, ss, i, specificity) ==
    IF i > Len(ps)
    THEN IF i - 1 # Len(ss)
         THEN [matched |-> FALSE, spec |-> 0]
         ELSE [matched |-> TRUE, spec |-> specificity]
    ELSE IF ps[i] = "**"
    THEN [matched |-> TRUE, spec |-> specificity + WildcardBonus]
    ELSE IF i > Len(ss)
    THEN [matched |-> FALSE, spec |-> 0]
    ELSE IF ps[i] = "*"
    THEN pathMatchLoop(ps, ss, i + 1, specificity + WildcardBonus)
    ELSE IF ps[i] # ss[i]
    THEN [matched |-> FALSE, spec |-> 0]
    ELSE pathMatchLoop(ps, ss, i + 1, specificity + LiteralBonus)

\* pathMatch supports '*', '**' wildcards: (matched, specificity)
pathMatch(pattern, path) ==
    IF pattern = path
    THEN [matched |-> TRUE, spec |-> Len(path) + ExactBonus]
    ELSE pathMatchLoop(Split(TrimPrefix(pattern, "/"), "/"),
                       Split(TrimPrefix(path, "/"), "/"), 1, 0)

(***************************************************************************)
(* Configuration (config.go).  A section's ResourceMap is a function from  *)
(* its keys; Go ranges over a map in an unspecified order, so the result   *)
(* of a matching loop is the set of results some order produces.           *)
(***************************************************************************)
\* FineRule{}: the zero rule MatchRule returns with ok = false
ZeroRule == [Roles |-> <<>>, RulesetName |-> "", RulesetID |-> "", Body |-> <<>>]

\* The specificities of the keys of resource map m that match: what the loops of
\* MatchResource and MatchRule compare.  cand[k] is (matched, spec) of key k.
BestKeys(cand) ==
    LET matching == {k \in DOMAIN cand : cand[k].matched}
    IN  IF matching = {}
        THEN {""}
        ELSE {k \in matching : \A k2 \in matching : cand[k2].spec <= cand[k].spec}

\* helper: match coarse resource-map key against a path and return the mapped
\* resource: the set of (resource, ok) the loop can end with.
MatchResource(c, path) ==
    LET pat(k) == LET p == normalizePattern(k)
                      pm == splitMethod(p)
                  IN  IF pm.has THEN pm.pattern ELSE p
        cand == [k \in DOMAIN c.ResourceMap |-> pathMatch(pat(k), path)]
    IN  {IF bestKey = ""
         THEN [resource |-> "", ok |-> FALSE]
         ELSE [resource |-> c.ResourceMap[bestKey], ok |-> TRUE]
         : bestKey \in BestKeys(cand)}

\* MatchRule that does not compare the method
MatchRuleAnyMethod(f, method0, path) ==
    LET cand == [k \in DOMAIN f.ResourceMap |->
                   pathMatch(splitMethod(normalizePattern(k)).pattern, path)]
    IN  {IF bestKey = ""
         THEN [rule |-> ZeroRule, ok |-> FALSE]
         ELSE [rule |-> f.ResourceMap[bestKey], ok |-> TRUE]
         : bestKey \in BestKeys(cand)}

\* helper: match fine-grain rule by method and path: the set of (rule, ok).
MatchRule(f, method0, path) ==
    LET method == ToUpper(method0)
        cand == [k \in DOMAIN f.ResourceMap |->
                   LET pm == splitMethod(normalizePattern(k))
                   IN  IF pm.has /\ pm.method # method
                       THEN [matched |-> FALSE, spec |-> 0]
                       ELSE pathMatch(pm.pattern, path)]
    IN  {IF bestKey = ""
         THEN [rule |-> ZeroRule, ok |-> FALSE]
         ELSE [rule |-> f.ResourceMap[bestKey], ok |-> TRUE]
         : bestKey \in BestKeys(cand)}

(***************************************************************************)
(* Results of a check: the Go tuple (allow, reason, error).                *)
(***************************************************************************)
Nil == "<nil>"

Ret(allow, reason, err) == [allow |-> allow, reason |-> reason, err |-> err]

\* What the part of a check before httpClient.Do ends with: it returns (Return), or
\* it has built the HTTP request it now sends (Do).  fail names the failure that
\* kept the check from a PDP decision, "none" when there was none.
Return(ret, fail) == [kind |-> "return", ret |-> ret, fail |-> fail]

Do(url, auth, body) ==
    [kind |-> "do",
     msg  |-> [method |-> "POST", url |-> url, contentType |-> "application/json",
               basicAuth |-> auth, body |-> body]]

\* The error of url.Parse; the rejected URLs of the model are those that start with a
\* colon ("missing protocol scheme").
urlParseErr(url) ==
    IF HasPrefix(url, ":") THEN "parse " \o url \o ": missing protocol scheme" ELSE Nil

\* http.NewRequest(http.MethodPost, url, body) fails when url.Parse rejects the URL.
NewRequestErr(url) == urlParseErr(url)

\* req.SetBasicAuth(conf.ClientID, conf.ClientSecret) when configured
BasicAuth(conf) ==
    IF conf.ClientAuthMethod = "client_secret_basic" /\ conf.ClientID # ""
    THEN <<[id |-> conf.ClientID, secret |-> conf.ClientSecret]>>
    ELSE <<>>

\* UnsupportedAuth that accepts every configured method
UnsupportedAuthIgnored(conf) == FALSE

UnsupportedAuth(conf) ==
    ~(conf.ClientAuthMethod = "client_secret_basic" /\ conf.ClientID # "")
    /\ conf.ClientAuthMethod # "" /\ conf.ClientAuthMethod # "client_secret_basic"

\* Non2xx with the lower bound forgotten
Non2xxUpperOnly(status) == status >= 300

\* resp.StatusCode < 200 || resp.StatusCode >= 300
Non2xx(status) == status < 200 \/ status >= 300

\* resp.Status, the text errors.New is given
StatusText(status) == ToString(status)

(***************************************************************************)
(* Coarse check, package ingress/authorization (coarse.go).                *)
(***************************************************************************)
\* postCoarseCheck up to httpClient.Do.  json.Marshal of a coarsePayload (strings,
\* a bool, a map of strings) has no failing input.
postCoarseCheck(conf, payload) ==
    LET marshalErr == Nil
        netWorkErr == NewRequestErr(conf.ValidationURL)
    IN  IF marshalErr # Nil
        THEN Return(Ret(FALSE, "", marshalErr), "marshal")
        ELSE IF netWorkErr # Nil
        THEN Return(Ret(FALSE, "", marshalErr), "newrequest")
        ELSE IF UnsupportedAuth(conf)
        THEN Return(Ret(FALSE, "",
                        "unsupported client auth method: " \o conf.ClientAuthMethod),
                    "authmethod")
        ELSE Do(conf.ValidationURL, BasicAuth(conf), payload)

\* postCoarseCheckResp that fails open on a transport failure
postCoarseCheckRespFailOpen(o) ==
    IF o.kind = "neterr"
    THEN Return(Ret(TRUE, "", o.err), "transport")
    ELSE IF Non2xx(o.status)
    THEN Return(Ret(FALSE, "non-2xx from validation service", StatusText(o.status)),
                "status")
    ELSE IF ~o.json
    THEN Return(Ret(FALSE, "", "invalid character in response body"), "decode")
    ELSE Return(Ret(o.allow, o.reason, Nil), "none")

\* postCoarseCheck from the answer of httpClient.Do on.
postCoarseCheckResp(o) ==
    IF o.kind = "neterr"
    THEN Return(Ret(FALSE, "", o.err), "transport")
    ELSE IF Non2xx(o.status)
    THEN Return(Ret(FALSE, "non-2xx from validation service", StatusText(o.status)),
                "status")
    ELSE IF ~o.json
    THEN Return(Ret(FALSE, "", "invalid character in response body"), "decode")
    ELSE Return(Ret(o.allow, o.reason, Nil), "none")

\* CheckCoarseAccess that denies every unmatched path, whatever anonymous-access is
CheckCoarseAccessDenyUnmatched(c, req, p) ==
    IF c = <<>> \/ ~c[1].Coarse.Enabled \/ c[1].Coarse.ValidationURL = ""
    THEN {Return(Ret(TRUE, "coarse check skipped (no config)", Nil), "none")}
    ELSE {IF ~m.ok
          THEN Return(Ret(FALSE, "coarse check denied (no matching resource)", Nil), "none")
          ELSE postCoarseCheck(c[1].Coarse,
                               [Principal |-> p, Request |-> req, Resource |-> m.resource,
                                AnonymousAccess |-> c[1].Coarse.AnonymousAccess])
          : m \in MatchResource(c[1].Coarse, req.Path)}

\* CheckCoarseAccess up to the HTTP call: the set of ways it can go (one per result
\* of MatchResource).
CheckCoarseAccess(c, req, p) ==
    IF c = <<>> \/ ~c[1].Coarse.Enabled \/ c[1].Coarse.ValidationURL = ""
    THEN {Return(Ret(TRUE, "coarse check skipped (no config)", Nil), "none")}
    ELSE {IF ~m.ok
          THEN IF c[1].Coarse.AnonymousAccess
               THEN Return(Ret(TRUE,
                    "coarse check allowed (no matching resource; anonymous-access=true)",
                    Nil), "none")
               ELSE Return(Ret(FALSE, "coarse check denied (no matching resource)", Nil),
                           "none")
          ELSE postCoarseCheck(c[1].Coarse,
                               [Principal |-> p, Request |-> req, Resource |-> m.resource,
                                AnonymousAccess |-> c[1].Coarse.AnonymousAccess])
          : m \in MatchResource(c[1].Coarse, req.Path)}

(***************************************************************************)
(* Coarse check, package authorization (authorization/coarse.go).          *)
(***************************************************************************)
postValidateCoarse(conf, payload) ==
    LET marshalErr == Nil
        err == NewRequestErr(conf.ValidationURL)
    IN  IF marshalErr # Nil
        THEN Return(Ret(FALSE, "", marshalErr), "marshal")
        ELSE IF err # Nil
        THEN Return(Ret(FALSE, "", err), "newrequest")
        ELSE IF UnsupportedAuth(conf)
        THEN Return(Ret(FALSE, "",
                        "unsupported client auth method: " \o conf.ClientAuthMethod),
                    "authmethod")
        ELSE Do(conf.ValidationURL, BasicAuth(conf), payload)

\* postValidateCoarseResp that passes on the decision without the PDP's reason
postValidateCoarseRespNoReason(o) ==
    IF o.kind = "neterr"
    THEN Return(Ret(FALSE, "", o.err), "transport")
    ELSE IF Non2xx(o.status)
    THEN Return(Ret(FALSE, "non-2xx from validation service", StatusText(o.status)),
                "status")
    ELSE IF ~o.json
    THEN Return(Ret(FALSE, "", "invalid character in response body"), "decode")
    ELSE Return(Ret(o.allow, "", Nil), "none")

postValidateCoarseResp(o) ==
    IF o.kind = "neterr"
    THEN Return(Ret(FALSE, "", o.err), "transport")
    ELSE IF Non2xx(o.status)
    THEN Return(Ret(FALSE, "non-2xx from validation service", StatusText(o.status)),
                "status")
    ELSE IF ~o.json
    THEN Return(Ret(FALSE, "", "invalid character in response body"), "decode")
    ELSE Return(Ret(o.allow, o.reason, Nil), "none")

CheckCoarse(c, req, p) ==
    IF c = <<>> \/ ~c[1].Coarse.Enabled \/ c[1].Coarse.ValidationURL = ""
    THEN {Return(Ret(TRUE, "coarse check skipped (no config)", Nil), "none")}
    ELSE {IF ~m.ok
          THEN IF c[1].Coarse.AnonymousAccess
               THEN Return(Ret(TRUE,
                    "coarse check allowed (no matching resource; anonymous-access=true)",
                    Nil), "none")
               ELSE Return(Ret(FALSE, "coarse check denied (no matching resource)", Nil),
                           "none")
          ELSE postValidateCoarse(c[1].Coarse,
                               [Principal |-> p, Request |-> req, Resource |-> m.resource,
                                AnonymousAccess |-> c[1].Coarse.AnonymousAccess])
          : m \in MatchResource(c[1].Coarse, req.Path)}

(***************************************************************************)
(* Fine-grained check, generic dialect (finegrain.go).                     *)
(***************************************************************************)
postValidateFine(conf, payload) ==
    LET marshalErr == Nil
        err == NewRequestErr(conf.ValidationURL)
    IN  IF marshalErr # Nil
        THEN Return(Ret(FALSE, "", marshalErr), "marshal")
        ELSE IF err # Nil
        THEN Return(Ret(FALSE, "", err), "newrequest")
        ELSE IF UnsupportedAuth(conf)
        THEN Return(Ret(FALSE, "",
                        "unsupported client auth method: " \o conf.ClientAuthMethod),
                    "authmethod")
        ELSE Do(conf.ValidationURL, BasicAuth(conf), payload)

postValidateFineResp(o) ==
    IF o.kind = "neterr"
    THEN Return(Ret(FALSE, "", o.err), "transport")
    ELSE IF Non2xx(o.status)
    THEN Return(Ret(FALSE, "non-2xx from validation service", StatusText(o.status)),
                "status")
    ELSE IF ~o.json
    THEN Return(Ret(FALSE, "", "invalid character in response body"), "decode")
    ELSE Return(Ret(o.allow, o.reason, Nil), "none")

CheckFineGrain(c, req, p) ==
    IF c = <<>> \/ ~c[1].FineGrain.Enabled \/ c[1].FineGrain.ValidationURL = ""
    THEN {Return(Ret(TRUE, "fine-grain check skipped (no config)", Nil), "none")}
    ELSE {IF ~m.ok
          THEN Return(Ret(TRUE, "fine-grain check skipped (no matching rule)", Nil),
                      "none")
          ELSE postValidateFine(c[1].FineGrain,
                                [Principal |-> p, Request |-> req, Rule |-> m.rule])
          : m \in MatchRule(c[1].FineGrain, req.Method, req.Path)}

(***************************************************************************)
(* Decoded JSON (interface{} values): a record with a type tag t and the   *)
(* value v.  "opaque" is a Go value json.Marshal rejects (a func, a chan,  *)
(* NaN), which a caller can put in bodyData.                               *)
(***************************************************************************)
JStr(s) == [t |-> "str", v |-> s]
JBool(b) == [t |-> "bool", v |-> b]
JNum(n) == [t |-> "num", v |-> n]
JObj(f) == [t |-> "obj", v |-> f]
JArr(a) == [t |-> "arr", v |-> a]
JNull == [t |-> "null", v |-> ""]
JOpaque == [t |-> "opaque", v |-> ""]

\* The empty Go map.
EmptyMap == [k \in {} |-> ""]

\* A (value, error) pair.
Val(v) == [val |-> v, err |-> Nil]
Err(e) == [val |-> JNull, err |-> e]

(***************************************************************************)
(* Path extractor (plainid.go).                                            *)
(***************************************************************************)
\* extractLoop that turns a present existence field into true
RECURSIVE extractLoopCoerce(_, _, _, _)
extractLoopCoerce(current, parts, i, jsonPath) ==
    IF i > Len(parts)
    THEN Val(current)
    ELSE IF parts[i] = ""
    THEN extractLoopCoerce(current, parts, i + 1, jsonPath)
    ELSE IF current.t = "obj"
    THEN IF Contains(parts[i], "Used") \/ Contains(parts[i], "Exists")
         THEN Val(JBool(parts[i] \in DOMAIN current.v))
         ELSE IF parts[i] \in DOMAIN current.v
         THEN extractLoopCoerce(current.v[parts[i]], parts, i + 1, jsonPath)
         ELSE Err("path " \o jsonPath \o ": field " \o parts[i] \o " not found in object")
    ELSE Err("path " \o jsonPath \o ": cannot traverse into non-object at step "
             \o parts[i])

\* The loop of extractValueFromPath over parts, from part i on.
RECURSIVE extractLoop(_, _, _, _)
extractLoop(current, parts, i, jsonPath) ==
    IF i > Len(parts)
    THEN Val(current)
    ELSE IF parts[i] = ""
    THEN extractLoop(current, parts, i + 1, jsonPath)
    ELSE IF current.t = "obj"
    THEN IF parts[i] \in DOMAIN current.v
         THEN extractLoop(current.v[parts[i]], parts, i + 1, jsonPath)
         ELSE IF Contains(parts[i], "Used") \/ Contains(parts[i], "Exists")
         THEN Val(JBool(FALSE))
         ELSE Err("path " \o jsonPath \o ": field " \o parts[i] \o " not found in object")
    ELSE Err("path " \o jsonPath \o ": cannot traverse into non-object at step "
             \o parts[i])

\* The nested-field walk of extractArrayWildcard inside one element: a step into a
\* non-object leaves current where it is, a missing key gives nil.
RECURSIVE subFieldLoop(_, _, _)
subFieldLoop(current, subParts, i) ==
    IF i > Len(subParts)
    THEN current
    ELSE IF current.t = "obj"
    THEN subFieldLoop(IF subParts[i] \in DOMAIN current.v
                      THEN current.v[subParts[i]]
                      ELSE JNull,
                      subParts, i + 1)
    ELSE subFieldLoop(current, subParts, i + 1)

\* wildcardLoop that leaves out the null values of the field
RECURSIVE wildcardLoopSkipNull(_, _, _, _)
wildcardLoopSkipNull(arr, fieldPath, i, results) ==
    IF i > Len(arr)
    THEN Val(JArr(results))
    ELSE IF arr[i].t # "obj"
    THEN Err("array element at index " \o ToString(i - 1) \o " is not an object")
    ELSE LET current == subFieldLoop(arr[i], Split(fieldPath, "."), 1)
         IN  wildcardLoopSkipNull(arr, fieldPath, i + 1,
                                  IF current # JNull THEN Append(results, current)
                                  ELSE results)

\* The loop of extractArrayWildcard over the array, from element i on, with the
\* results appended so far.
RECURSIVE wildcardLoop(_, _, _, _)
wildcardLoop(arr, fieldPath, i, results) ==
    IF i > Len(arr)
    THEN Val(JArr(results))
    ELSE IF arr[i].t # "obj"
    THEN Err("array element at index " \o ToString(i - 1) \o " is not an object")
    ELSE IF fieldPath = ""
    THEN wildcardLoop(arr, fieldPath, i + 1, Append(results, arr[i]))
    ELSE IF Contains(fieldPath, ".")
    THEN LET current == subFieldLoop(arr[i], Split(fieldPath, "."), 1)
         IN  wildcardLoop(arr, fieldPath, i + 1,
                          IF current # JNull THEN Append(results, current) ELSE results)
    ELSE wildcardLoop(arr, fieldPath, i + 1,
                      IF fieldPath \in DOMAIN arr[i].v
                      THEN Append(results, arr[i].v[fieldPath])
                      ELSE results)

\* The simple-path part of extractValueFromPath (a path without "[*]").
extractSimple(data, jsonPath) ==
    LET path == IF HasPrefix(jsonPath, "$.")
                THEN TrimPrefix(jsonPath, "$.")
                ELSE TrimPrefix(jsonPath, "$")
    IN  extractLoop(data, Split(path, "."), 1, jsonPath)

\* extractArrayWildcard extracts values from array elements using wildcard pattern
extractArrayWildcard(data, path) ==
    LET parts == Split(path, "[*]")
    IN  IF Len(parts) # 2
        THEN Err("invalid wildcard pattern: " \o path)
        ELSE LET arrayPath == parts[1]
                 fieldPath == TrimPrefix(parts[2], ".")
                 arrayValue == extractSimple(data, arrayPath)
             IN  IF arrayValue.err # Nil
                 THEN Err("failed to extract array at path " \o arrayPath \o ": "
                          \o arrayValue.err)
                 ELSE IF arrayValue.val.t # "arr"
                 THEN Err("path " \o arrayPath \o " does not point to an array")
                 ELSE wildcardLoop(arrayValue.val.v, fieldPath, 1, <<>>)

\* extractValueFromPath extracts a value from a JSON object using a JSON path
extractValueFromPath(data, jsonPath) ==
    LET path == IF HasPrefix(jsonPath, "$.")
                THEN TrimPrefix(jsonPath, "$.")
                ELSE TrimPrefix(jsonPath, "$")
    IN  IF Contains(path, "[*]")
        THEN extractArrayWildcard(data, path)
        ELSE extractLoop(data, Split(path, "."), 1, jsonPath)

\* extractBodyFromRule that leaves out the fields it cannot extract
extractBodyFromRuleSkipMissing(bodyData, rule) ==
    LET got(f) == extractValueFromPath(bodyData, rule.Body[f])
        found == {f \in DOMAIN rule.Body : got(f).err = Nil}
    IN  {[val |-> [f \in found |-> got(f).val], err |-> Nil]}

\* extractBodyFromRule: the set of results some iteration order over rule.Body gives
\* (the first failing field met decides the error).
extractBodyFromRule(bodyData, rule) ==
    LET got(f) == extractValueFromPath(bodyData, rule.Body[f])
        failing == {f \in DOMAIN rule.Body : got(f).err # Nil}
    IN  IF failing = {}
        THEN {[val |-> [f \in DOMAIN rule.Body |-> got(f).val], err |-> Nil]}
        ELSE {[val |-> EmptyMap,
               err |-> "failed to extract field " \o f \o " from path " \o rule.Body[f]
                       \o ": " \o got(f).err] : f \in failing}

(***************************************************************************)
(* net/url, for URLs of the shape [scheme://host[:port]][/path][?query].   *)
(***************************************************************************)
\* url.Parse: (Scheme, Host, RawQuery, err)
urlParse(u) ==
    LET q == Index(u, "?")
        base == IF q = 0 THEN u ELSE SubSeq(u, 1, q - 1)
        rawQuery == IF q = 0 THEN "" ELSE SubSeq(u, q + 1, Len(u))
        i == Index(base, "://")
        rest == IF i = 0 THEN "" ELSE SubSeq(base, i + 3, Len(base))
        slash == Index(rest, "/")
    IN  [Scheme   |-> IF i = 0 THEN "" ELSE SubSeq(base, 1, i - 1),
         Host     |-> IF slash = 0 THEN rest ELSE SubSeq(rest, 1, slash - 1),
         RawQuery |-> rawQuery,
         err      |-> urlParseErr(u)]

\* URL.Query(): key -> the sequence of its values, in order of appearance
RECURSIVE valuesOf(_, _, _)
valuesOf(pairs, key, i) ==
    IF i > Len(pairs)
    THEN <<>>
    ELSE LET kv == Split(pairs[i], "=")
         IN  (IF kv[1] = key
              THEN <<IF Len(kv) > 1 THEN kv[2] ELSE "">>
              ELSE <<>>) \o valuesOf(pairs, key, i + 1)

urlQuery(rawQuery) ==
    LET pairs == IF rawQuery = "" THEN <<>> ELSE Split(rawQuery, "&")
        keys == {Split(pairs[i], "=")[1] : i \in 1..Len(pairs)}
    IN  [k \in keys |-> valuesOf(pairs, k, 1)]

(***************************************************************************)
(* Fine-grained check, decision dialect (plainid.go).                      *)
(***************************************************************************)
EqualFold(a, b) == ToUpper(a) = ToUpper(b)

\* GetHeader retrieves a header value (case-insensitive): the set of values the
\* range over the header map can return.
GetHeader(r, key) ==
    IF key \in DOMAIN r.Headers
    THEN {r.Headers[key]}
    ELSE LET folded == {k \in DOMAIN r.Headers : EqualFold(k, key)}
         IN  IF folded = {} THEN {""} ELSE {r.Headers[k] : k \in folded}

\* buildPlainIdRequest constructs a PlainIdRequest: the set of (request, err) it can
\* return.
buildPlainIdRequest(req, p, rule, bodyData) ==
    LET parsedURL == urlParse(req.FullURL)
        parts == Split(parsedURL.Host, ":")
        authority == IF parsedURL.Host = ""
                     THEN EmptyMap
                     ELSE [k \in IF Len(parts) > 1 THEN {"host", "port"} ELSE {"host"} |->
                             IF k = "host" THEN parts[1] ELSE parts[2]]
        pathSegments == <<req.Path>> \o Split(TrimPrefix(req.Path, "/"), "/")
        values == urlQuery(parsedURL.RawQuery)
        queryParams == [key \in DOMAIN values |->
                          IF Len(values[key]) = 1
                          THEN JStr(values[key][1])
                          ELSE JArr([i \in 1..Len(values[key]) |-> JStr(values[key][i])])]
        schema == IF parsedURL.Scheme # "" THEN parsedURL.Scheme ELSE "http"
        headers(rid) == [k \in {"x-request-id"} \cup
                                 (IF "Authorization" \in DOMAIN req.Headers
                                  THEN {"Authorization"} ELSE {}) |->
                           IF k = "x-request-id" THEN rid ELSE req.Headers["Authorization"]]
    IN  IF parsedURL.err # Nil
        THEN {[val |-> <<>>, err |-> "failed to parse URL: " \o parsedURL.err]}
        ELSE UNION {
             IF requestBody.err # Nil
             THEN {[val |-> <<>>,
                    err |-> "failed to extract body fields: " \o requestBody.err]}
             ELSE {[val |-> <<[Method  |-> req.Method,
                               Headers |-> headers(rid),
                               URI     |-> [Schema |-> schema, Authority |-> authority,
                                            Path |-> pathSegments, Query |-> queryParams],
                               Body    |-> requestBody.val,
                               Meta    |-> [RuntimeFineTune |->
                                              [CombinedMultiValue |-> FALSE]]]>>,
                    err |-> Nil] : rid \in GetHeader(req, "X-Request-Id")}
             : requestBody \in extractBodyFromRule(bodyData, rule)}

\* json.Marshal fails on a value that has no JSON form.
RECURSIVE Marshalable(_)
Marshalable(v) ==
    CASE v.t = "opaque" -> FALSE
      [] v.t = "obj" -> \A k \in DOMAIN v.v : Marshalable(v.v[k])
      [] v.t = "arr" -> \A i \in 1..Len(v.v) : Marshalable(v.v[i])
      [] OTHER -> TRUE

\* postPlainIdCheck up to httpClient.Do
postPlainIdCheck(conf, plainIdReq) ==
    LET marshalErr == IF \A k \in DOMAIN plainIdReq.Body : Marshalable(plainIdReq.Body[k])
                      THEN Nil ELSE "json: unsupported value"
        err == NewRequestErr(conf.ValidationURL)
    IN  IF marshalErr # Nil
        THEN Return(Ret(FALSE, "", "failed to marshal plainId request: " \o marshalErr),
                    "marshal")
        ELSE IF err # Nil
        THEN Return(Ret(FALSE, "", "failed to create HTTP request: " \o err), "newrequest")
        ELSE IF UnsupportedAuth(conf)
        THEN Return(Ret(FALSE, "",
                        "unsupported client auth method: " \o conf.ClientAuthMethod),
                    "authmethod")
        ELSE Do(conf.ValidationURL, BasicAuth(conf), plainIdReq)

\* postPlainIdCheckResp that looks at deny before permit
postPlainIdCheckRespDenyFirst(o) ==
    IF o.kind = "neterr"
    THEN Return(Ret(FALSE, "", "failed to send plainId request: " \o o.err), "transport")
    ELSE IF Non2xx(o.status)
    THEN Return(Ret(FALSE, "non-2xx from plainId service", StatusText(o.status)), "status")
    ELSE IF ~o.json
    THEN Return(Ret(FALSE, "",
                    "failed to decode plainId response: invalid character in response body"),
                "decode")
    ELSE IF o.deny # ""
    THEN Return(Ret(FALSE, o.deny, Nil), "none")
    ELSE IF o.permit # ""
    THEN Return(Ret(TRUE, o.permit, Nil), "none")
    ELSE Return(Ret(o.allow, o.reason, Nil), "none")

\* postPlainIdCheck from the answer of httpClient.Do on
postPlainIdCheckResp(o) ==
    IF o.kind = "neterr"
    THEN Return(Ret(FALSE, "", "failed to send plainId request: " \o o.err), "transport")
    ELSE IF Non2xx(o.status)
    THEN Return(Ret(FALSE, "non-2xx from plainId service", StatusText(o.status)), "status")
    ELSE IF ~o.json
    THEN Return(Ret(FALSE, "",
                    "failed to decode plainId response: invalid character in response body"),
                "decode")
    ELSE IF o.permit # ""
    THEN Return(Ret(TRUE, o.permit, Nil), "none")
    ELSE IF o.deny # ""
    THEN Return(Ret(FALSE, o.deny, Nil), "none")
    ELSE Return(Ret(o.allow, o.reason, Nil), "none")

\* CheckPlainIdAccess that does not skip on an empty validation URL
CheckPlainIdAccessNoURLCheck(c, req, p, bodyData) ==
    IF c = <<>> \/ ~c[1].FineGrain.Enabled
    THEN {Return(Ret(TRUE, "plainId check skipped (no config)", Nil), "none")}
    ELSE UNION {
         IF ~m.ok
         THEN {Return(Ret(TRUE, "plainId check skipped (no matching rule)", Nil), "none")}
         ELSE {IF b.err # Nil
               THEN Return(Ret(FALSE, "", "failed to build plainId request: " \o b.err),
                           "build")
               ELSE postPlainIdCheck(c[1].FineGrain, b.val[1])
               : b \in buildPlainIdRequest(req, p, m.rule, bodyData)}
         : m \in MatchRule(c[1].FineGrain, req.Method, req.Path)}

\* CheckPlainIdAccess up to the HTTP call: the set of ways it can go.
CheckPlainIdAccess(c, req, p, bodyData) ==
    IF c = <<>> \/ ~c[1].FineGrain.Enabled \/ c[1].FineGrain.ValidationURL = ""
    THEN {Return(Ret(TRUE, "plainId check skipped (no config)", Nil), "none")}
    ELSE UNION {
         IF ~m.ok
         THEN {Return(Ret(TRUE, "plainId check skipped (no matching rule)", Nil), "none")}
         ELSE {IF b.err # Nil
               THEN Return(Ret(FALSE, "", "failed to build plainId request: " \o b.err),
                           "build")
               ELSE postPlainIdCheck(c[1].FineGrain, b.val[1])
               : b \in buildPlainIdRequest(req, p, m.rule, bodyData)}
         : m \in MatchRule(c[1].FineGrain, req.Method, req.Path)}

(***************************************************************************)
(* Gateway Handler (proxyhandler).                                         *)
(***************************************************************************)
StatusOK == 200
StatusUnauthorized == 401
StatusForbidden == 403

\* Decide that validates the coarse result only
DecideCoarseOnly(coarseRes, fineRes) ==
    IF coarseRes.err # Nil
    THEN [status |-> StatusForbidden, proxy |-> FALSE,
          msg |-> "coarse authorization error: " \o coarseRes.err]
    ELSE IF ~coarseRes.allow
    THEN [status |-> StatusForbidden, proxy |-> FALSE,
          msg |-> IF coarseRes.reason = "" THEN "coarse authorization denied"
                  ELSE coarseRes.reason]
    ELSE [status |-> StatusOK, proxy |-> TRUE, msg |-> ""]

\* Decide that validates the fine-grained result before the coarse one
DecideFineFirst(coarseRes, fineRes) ==
    IF fineRes.err # Nil
    THEN [status |-> StatusForbidden, proxy |-> FALSE,
          msg |-> "fine-grain authorization error: " \o fineRes.err]
    ELSE IF ~fineRes.allow
    THEN [status |-> StatusForbidden, proxy |-> FALSE,
          msg |-> IF fineRes.reason = "" THEN "fine-grain authorization denied"
                  ELSE fineRes.reason]
    ELSE IF coarseRes.err # Nil
    THEN [status |-> StatusForbidden, proxy |-> FALSE,
          msg |-> "coarse authorization error: " \o coarseRes.err]
    ELSE IF ~coarseRes.allow
    THEN [status |-> StatusForbidden, proxy |-> FALSE,
          msg |-> IF coarseRes.reason = "" THEN "coarse authorization denied"
                  ELSE coarseRes.reason]
    ELSE [status |-> StatusOK, proxy |-> TRUE, msg |-> ""]

\* The part of Handler after both results are in: reject with 403, or proxy.
Decide(coarseRes, fineRes) ==
    IF coarseRes.err # Nil
    THEN [status |-> StatusForbidden, proxy |-> FALSE,
          msg |-> "coarse authorization error: " \o coarseRes.err]
    ELSE IF ~coarseRes.allow
    THEN [status |-> StatusForbidden, proxy |-> FALSE,
          msg |-> IF coarseRes.reason = "" THEN "coarse authorization denied"
                  ELSE coarseRes.reason]
    ELSE IF fineRes.err # Nil
    THEN [status |-> StatusForbidden, proxy |-> FALSE,
          msg |-> "fine-grain authorization error: " \o fineRes.err]
    ELSE IF ~fineRes.allow
    THEN [status |-> StatusForbidden, proxy |-> FALSE,
          msg |-> IF fineRes.reason = "" THEN "fine-grain authorization denied"
                  ELSE fineRes.reason]
    ELSE [status |-> StatusOK, proxy |-> TRUE, msg |-> ""]

(***************************************************************************)
(* The inputs of the model: configurations, requests, bodies, PDP answers. *)
(***************************************************************************)
Principals == {[UserID |-> "u1", Username |-> "alice", Email |-> "a@example.com"]}

\* Principal{}: what Handler reads from Locals when no principal was stored
ZeroPrincipal == [UserID |-> "", Username |-> "", Email |-> ""]

Methods == {"GET", "post"}

\* c.OriginalURL() of the requests the gateway receives: path and query string
OriginalURLs == {"/a", "/a/b", "/zz", "/a?x=1"}

GoodURL == "http://pdp.local/validate"
BadURL == ":pdp.local"

CoarseMap ==
    [k \in {"[/a]", "[/a/*]", "[/b/**:GET]"} |->
       CASE k = "[/a]" -> "res-a" [] k = "[/a/*]" -> "res-a-child" [] OTHER -> "res-b"]

CoarseMapNarrow == [k \in {"[/a]"} |-> "res-a"]

Rule(name, body) == [Roles |-> <<"ROLE_USER">>, RulesetName |-> name, RulesetID |-> "1",
                     Body |-> body]

FineMap ==
    [k \in {"[/a:POST]", "[/a/*]"} |->
       IF k = "[/a:POST]"
       THEN Rule("rs-a", [f \in {"ids", "tUsed"} |->
                            IF f = "ids" THEN "$.items[*].id" ELSE "$.tUsed"])
       ELSE Rule("rs-child", [f \in {"name"} |-> "$.user.name"])]

\* Client authentication of a section: (method, client id)
AuthProfiles == {<<"", "">>, <<"client_secret_basic", "gw">>,
                 <<"client_secret_basic", "">>, <<"private_key_jwt", "gw">>}

CoarseDisabled ==
    [Enabled |-> FALSE, AnonymousAccess |-> FALSE, ValidationURL |-> GoodURL,
     ClientID |-> "", ClientSecret |-> "", ClientAuthMethod |-> "",
     ResourceMap |-> CoarseMap]

CoarseSections ==
    {CoarseDisabled, [CoarseDisabled EXCEPT !.Enabled = TRUE, !.ValidationURL = ""]}
    \cup {[Enabled |-> TRUE, AnonymousAccess |-> anon, ValidationURL |-> GoodURL,
           ClientID |-> a[2], ClientSecret |-> "s3cret", ClientAuthMethod |-> a[1],
           ResourceMap |-> m]
          : anon \in BOOLEAN, a \in AuthProfiles, m \in {CoarseMap}}
    \cup {[Enabled |-> TRUE, AnonymousAccess |-> anon, ValidationURL |-> BadURL,
           ClientID |-> "", ClientSecret |-> "", ClientAuthMethod |-> "",
           ResourceMap |-> CoarseMapNarrow] : anon \in BOOLEAN}
    \cup {[Enabled |-> TRUE, AnonymousAccess |-> FALSE, ValidationURL |-> BadURL,
           ClientID |-> "gw", ClientSecret |-> "s3cret",
           ClientAuthMethod |-> "private_key_jwt", ResourceMap |-> CoarseMapNarrow]}

FineDisabled ==
    [Enabled |-> FALSE, ValidationURL |-> GoodURL,
     ClientID |-> "", ClientSecret |-> "", ClientAuthMethod |-> "",
     ResourceMap |-> FineMap]

FineSections ==
    {FineDisabled, [FineDisabled EXCEPT !.Enabled = TRUE, !.ValidationURL = ""],
     [FineDisabled EXCEPT !.Enabled = TRUE, !.ValidationURL = BadURL]}
    \cup {[Enabled |-> TRUE, ValidationURL |-> GoodURL,
           ClientID |-> a[2], ClientSecret |-> "s3cret", ClientAuthMethod |-> a[1],
           ResourceMap |-> FineMap] : a \in AuthProfiles}

\* LoadValid that takes a blank URL for a URL
LoadValidNoTrim(c) ==
    LET coarseOK == c.Coarse.Enabled /\ c.Coarse.ValidationURL # ""
        fineOK == c.FineGrain.Enabled /\ c.FineGrain.ValidationURL # ""
    IN  coarseOK \/ fineOK

\* The validation of Load: at least one section enabled with a non-blank URL
LoadValid(c) ==
    LET coarseOK == c.Coarse.Enabled /\ TrimSpace(c.Coarse.ValidationURL) # ""
        fineOK == c.FineGrain.Enabled /\ TrimSpace(c.FineGrain.ValidationURL) # ""
    IN  coarseOK \/ fineOK

\* Load reads YAML config from the given path and stores it globally: the error it
\* returns and the configuration pointer after it, stored being the one before.
Load(file, stored) ==
    IF file.kind = "unreadable"
    THEN [err |-> "open authorization.yaml: no such file or directory", cfg |-> stored]
    ELSE IF file.kind = "invalid"
    THEN [err |-> "yaml: unmarshal errors", cfg |-> stored]
    ELSE IF ~LoadValid(file.c)
    THEN [err |-> "authorization: at least one enabled section with validation-url is required",
          cfg |-> stored]
    ELSE [err |-> Nil, cfg |-> <<file.c>>]

\* The configurations Load accepts
Configs == {c \in [Coarse : CoarseSections, FineGrain : FineSections] : LoadValid(c)}

\* PDP answers to one HTTP request, as the call sees them: no answer (unreachable,
\* timeout), or a status and a body that does not decode, or a 2xx status and the
\* decoded body: a validationResponse {allow, reason} in the generic dialect, a
\* PlainIdResponse {allow, reason, permit, deny} in the decision dialect.
Statuses == {199, 200, 299, 300}

FailedOutcomes ==
    {[kind |-> "neterr", err |-> "dial tcp: connection refused"]}
    \cup {[kind |-> "resp", status |-> st, json |-> FALSE] : st \in Statuses}

PDPOutcomes(fn) ==
    FailedOutcomes \cup
    IF fn = "CheckPlainIdAccess"
    THEN {[kind |-> "resp", status |-> st, json |-> TRUE, allow |-> al,
           reason |-> rs, permit |-> pm, deny |-> dn]
          : st \in {x \in Statuses : ~Non2xx(x)}, al \in BOOLEAN, rs \in {"", "because"},
            pm \in {"", "PERMIT"}, dn \in {"", "DENY"}}
    ELSE {[kind |-> "resp", status |-> st, json |-> TRUE, allow |-> al, reason |-> rs]
          : st \in {x \in Statuses : ~Non2xx(x)}, al \in BOOLEAN, rs \in {"", "because"}}

\* Request bodies handed to CheckPlainIdAccess
BodyItems ==
    JObj([k \in {"items", "user"} |->
            IF k = "items"
            THEN JArr(<<JObj([f \in {"id"} |-> JStr("a")]), JObj([f \in {"id"} |-> JStr("b")])>>)
            ELSE JObj([f \in {"name"} |-> JStr("alice")])])

BodyNoItems == JObj([k \in {"user"} |-> JStr("alice")])

BodyOpaque ==
    JObj([k \in {"items", "user"} |->
            IF k = "items"
            THEN JArr(<<JObj([f \in {"id"} |-> JOpaque])>>)
            ELSE JObj([f \in {"name"} |-> JOpaque])])

Bodies == {BodyItems, BodyNoItems, BodyOpaque}

NoBody == JObj(EmptyMap)

\* RequestInfo values the check functions are called with directly
ApiRequests ==
    {[Method |-> m, Path |-> pth, FullURL |-> u, Headers |-> h]
     : m \in Methods, pth \in {"/a", "/a/b", "/zz"},
       u \in {"http://gw.local:8080/a?x=1&x=2&y=3", ":gw"},
       h \in {[k \in {"X-Request-Id", "authorization"} |->
                 IF k = "X-Request-Id" THEN "rid-1" ELSE "Bearer t"]}}

ApiFns == {"CheckCoarse", "CheckCoarseAccess", "CheckFineGrain", "CheckPlainIdAccess"}

\* Keys of resource maps as a YAML file can give them, and the maps of up to
\* MaxKeys of them; every key maps to a value that names it.
RawKeys == {"[/a]", "[/a/*]", "[/a/**]", "[/a/b:GET]", "[/a/b: post ]", "[/a/b:*]", "/a/b",
            "[/**]", ""}

MaxKeys == 2

KeySets == {ks \in SUBSET RawKeys : ks # {} /\ Cardinality(ks) <= MaxKeys}

CoarseResources(ks) == [k \in ks |-> "res:" \o k]

FineResources(ks) == [k \in ks |-> Rule("rule:" \o k, EmptyMap)]

\* Request paths and methods the matchers are applied to
FnPaths == {"/", "/a", "/a/b", "/a/b/c", "/zz"}

FnMethods == {"GET", "post", "PUT"}

\* Request paths that have an asterisk segment of their own
StarPaths == {"/a/**", "/a/*"}

\* Patterns pathMatch is applied to
FnPatterns == {"/a", "/a/b", "/a/*", "/a/**", "/*/b", "/**/b", "/a/b/c", "/a/*/c",
               "/a/**/c", "/*", "/**"}

\* Request bodies and JSON paths the extractor is applied to
FullBody ==
    JObj(("tUsed" :> JStr("T1")) @@ ("templateId" :> JStr("tpl-9")) @@ ("flag" :> JBool(FALSE))
         @@ ("user" :> JObj(("name" :> JStr("alice")) @@ ("fExists" :> JNum(0)))))

SparseBody == JObj(("note" :> JStr("n")) @@ ("user" :> JObj("name" :> JStr("alice"))))

ScalarUserBody == JObj("user" :> JStr("alice"))

MaxArrayLen == 3

\* An array of n objects {f, g}; the f of the second one is null
Elements(n) ==
    [i \in 1..n |-> JObj(("f" :> IF i = 2 THEN JNull ELSE JNum(10 * i))
                         @@ ("g" :> JStr("x")))]

ArrayBody(n) ==
    JObj(("arr" :> JArr(Elements(n)))
         @@ ("a" :> JObj("b" :> JObj("arr" :> JArr(Elements(n))))))

FnBodies == {FullBody, SparseBody, ScalarUserBody} \cup {ArrayBody(n) : n \in 0..MaxArrayLen}

SimplePaths == {"$.tUsed", "tUsed", "$.templateId", "$.flag", "$.missing",
                "$.user.name", "$.user.fExists", "$.user.age", "$.tUsed.x", "$.gone.fExists"}

WildcardPaths == {"$.arr[*].f", "$.a.b.arr[*].f"}

\* Wildcard paths with no suffix, with a field the elements lack, with a step into
\* the string g of the elements, and with a base that is no array
ProjectionPaths == {"$.arr[*]", "$.arr[*].h", "$.arr[*].g.h", "$.user[*].f"}

FnJsonPaths == SimplePaths \cup WildcardPaths \cup ProjectionPaths

\* Rules and requests buildPlainIdRequest is applied to
FnRules ==
    {Rule("rs-template", "templateUsed" :> "$.templateId"),
     Rule("rs-user", ("tUsed" :> "$.tUsed") @@ ("name" :> "$.user.name")),
     Rule("rs-none", EmptyMap)}

HeaderMaps ==
    {EmptyMap,
     ("X-Request-Id" :> "rid-1") @@ ("Authorization" :> "Bearer t") @@ ("Cookie" :> "c=1"),
     ("x-request-id" :> "rid-2") @@ ("authorization" :> "Bearer t"),
     ("X-REQUEST-ID" :> "rid-3") @@ ("x-Request-id" :> "rid-4") @@ ("Cookie" :> "c=1")}

FnRequests ==
    {[Method |-> "GET", Path |-> "/a/b", FullURL |-> u, Headers |-> h]
     : u \in {"http://gw.local:8080/a/b?x=1", ":gw"}, h \in HeaderMaps}

\* What Load finds at its path: no readable file, text that is not YAML, or a file
\* that parses to a configuration.
BlankURL == "  "

FileCoarseSections ==
    {CoarseDisabled} \cup
    {[CoarseDisabled EXCEPT !.Enabled = TRUE, !.ValidationURL = u]
     : u \in {"", BlankURL, GoodURL, BadURL}}

FileFineSections ==
    {FineDisabled} \cup
    {[FineDisabled EXCEPT !.Enabled = TRUE, !.ValidationURL = u]
     : u \in {"", BlankURL, GoodURL, BadURL}}

Files ==
    {[kind |-> "unreadable"], [kind |-> "invalid"]}
    \cup {[kind |-> "yaml", c |-> c]
          : c \in [Coarse : FileCoarseSections, FineGrain : FileFineSections]}

(***************************************************************************)
(* State.                                                                  *)
(***************************************************************************)
VARIABLES
    cfg,        \* the package-level configuration pointer
    hpc,        \* where Handler is: "idle", "recvCoarse", "recvFine", "decide", "done"
    hreq,       \* reqInfo and principal of the request Handler works on
    coarseCh,   \* the buffered channels of Handler
    fineCh,
    coarseRes,  \* what Handler received from them
    fineRes,
    response,   \* what Handler returned: status and message
    proxied,    \* the number of calls of doProxy for the request
    served,     \* the number of requests Handler has completed
    order,      \* the goroutines in the order they sent their result
    cpc,        \* per call of a check: "idle", "ready", "inflight", "returned", "exited"
    cfn,        \* the check function called
    cargs,      \* its arguments
    sent,       \* the HTTP requests the call has sent to the PDP
    pdpOut,     \* the PDP's answer to the call
    ret,        \* the tuple the call returned
    fail,       \* the failure that kept it from a PDP decision, "none" if none
    pfn,        \* the package function a caller has applied, "" if none
    pin,        \* its arguments
    pout,       \* what it returned
    tokens,     \* TokenStorage.tokens: idpType -> (token, expiresAt)
    tokenFiles, \* the files of tokenDir: idpType -> the token written to its file
    now         \* time.Now()

vars == <<cfg, hpc, hreq, coarseCh, fineCh, coarseRes, fineRes, response, proxied,
          served, order, cpc, cfn, cargs, sent, pdpOut, ret, fail, pfn, pin, pout,
          tokens, tokenFiles, now>>

\* The state of Handler and the state of the calls
hvars == <<hpc, hreq, coarseCh, fineCh, coarseRes, fineRes, response, proxied, served,
           order>>
cvars == <<cpc, cfn, cargs, sent, pdpOut, ret, fail>>
pvars == <<pfn, pin, pout>>
\* The token storage of the egress proxy and the clock
evars == <<tokens, tokenFiles, now>>

\* The calls of check functions: the two goroutines of Handler, and a direct caller
\* of the package's entry points.
Goroutines == {"coarse", "fine"}
Calls == Goroutines \cup {"api"}

\* make(chan authResult, 1)
ChanCap == 1

\* The number of requests the gateway serves in a behaviour
MaxRequests == 1

NoArgs == [req |-> [Method |-> "", Path |-> "", FullURL |-> "", Headers |-> EmptyMap],
           p |-> ZeroPrincipal, body |-> NoBody]

NoResponse == [status |-> 0, msg |-> ""]

\* authResult{}
ZeroResult == Ret(FALSE, "", Nil)

\* No request in the gateway, no call in progress
Quiet ==
    /\ hpc = "idle"
    /\ hreq = NoArgs
    /\ coarseCh = <<>>
    /\ fineCh = <<>>
    /\ coarseRes = ZeroResult
    /\ fineRes = ZeroResult
    /\ response = NoResponse
    /\ proxied = 0
    /\ order = <<>>
    /\ cpc = [c \in Calls |-> "idle"]
    /\ cfn = [c \in Calls |-> ""]
    /\ cargs = [c \in Calls |-> NoArgs]
    /\ sent = [c \in Calls |-> <<>>]
    /\ pdpOut = [c \in Calls |-> <<>>]
    /\ ret = [c \in Calls |-> <<>>]
    /\ fail = [c \in Calls |-> "none"]

\* The same of the next state: every frame is gone
Reset ==
    /\ hpc' = "idle"
    /\ hreq' = NoArgs
    /\ coarseCh' = <<>>
    /\ fineCh' = <<>>
    /\ coarseRes' = ZeroResult
    /\ fineRes' = ZeroResult
    /\ response' = NoResponse
    /\ proxied' = 0
    /\ order' = <<>>
    /\ cpc' = [c \in Calls |-> "idle"]
    /\ cfn' = [c \in Calls |-> ""]
    /\ cargs' = [c \in Calls |-> NoArgs]
    /\ sent' = [c \in Calls |-> <<>>]
    /\ pdpOut' = [c \in Calls |-> <<>>]
    /\ ret' = [c \in Calls |-> <<>>]
    /\ fail' = [c \in Calls |-> "none"]

\* main: Load has stored a configuration it accepts, or has failed and left cfg nil
Init ==
    /\ cfg \in {<<>>} \cup {<<c>> : c \in Configs}
    /\ served = 0
    /\ Quiet
    /\ pfn = ""
    /\ pin = <<>>
    /\ pout = <<>>
    /\ tokens = EmptyMap
    /\ tokenFiles = EmptyMap
    /\ now = 0

(***************************************************************************)
(* A call of a check function.                                             *)
(***************************************************************************)
\* The ways call c goes from its entry to its return or to httpClient.Do
Entry(c) ==
    CASE cfn[c] = "CheckCoarseAccess" -> CheckCoarseAccess(cfg, cargs[c].req, cargs[c].p)
      [] cfn[c] = "CheckCoarse" -> CheckCoarse(cfg, cargs[c].req, cargs[c].p)
      [] cfn[c] = "CheckFineGrain" -> CheckFineGrain(cfg, cargs[c].req, cargs[c].p)
      [] cfn[c] = "CheckPlainIdAccess" ->
            CheckPlainIdAccess(cfg, cargs[c].req, cargs[c].p, cargs[c].body)

\* How call c goes on when httpClient.Do returns with answer o
Resume(c, o) ==
    CASE cfn[c] = "CheckCoarseAccess" -> postCoarseCheckResp(o)
      [] cfn[c] = "CheckCoarse" -> postValidateCoarseResp(o)
      [] cfn[c] = "CheckFineGrain" -> postValidateFineResp(o)
      [] cfn[c] = "CheckPlainIdAccess" -> postPlainIdCheckResp(o)

\* CallRun whose matcher stores the normalised form of the keys back into the
\* coarse resource map
CallRunNormalizing(c) ==
    /\ cpc[c] = "ready"
    /\ \E step \in Entry(c) :
          IF step.kind = "return"
          THEN /\ cpc' = [cpc EXCEPT ![c] = "returned"]
               /\ ret' = [ret EXCEPT ![c] = <<step.ret>>]
               /\ fail' = [fail EXCEPT ![c] = step.fail]
               /\ sent' = sent
          ELSE /\ cpc' = [cpc EXCEPT ![c] = "inflight"]
               /\ sent' = [sent EXCEPT ![c] = Append(@, step.msg)]
               /\ UNCHANGED <<ret, fail>>
    /\ cfg' = IF cfg = <<>> THEN cfg
              ELSE LET m == cfg[1].Coarse.ResourceMap
                       keys == {normalizePattern(k) : k \in DOMAIN m}
                   IN  <<[cfg[1] EXCEPT !.Coarse.ResourceMap =
                            [n \in keys |->
                               m[CHOOSE k \in DOMAIN m : normalizePattern(k) = n]]]>>
    /\ UNCHANGED <<pvars, evars, hvars, cfn, cargs, pdpOut>>

\* Call c runs from its entry until it returns or blocks in httpClient.Do.
CallRun(c) ==
    /\ cpc[c] = "ready"
    /\ \E step \in Entry(c) :
          IF step.kind = "return"
          THEN /\ cpc' = [cpc EXCEPT ![c] = "returned"]
               /\ ret' = [ret EXCEPT ![c] = <<step.ret>>]
               /\ fail' = [fail EXCEPT ![c] = step.fail]
               /\ sent' = sent
          ELSE /\ cpc' = [cpc EXCEPT ![c] = "inflight"]
               /\ sent' = [sent EXCEPT ![c] = Append(@, step.msg)]
               /\ UNCHANGED <<ret, fail>>
    /\ UNCHANGED <<cfg, pvars, evars, hvars, cfn, cargs, pdpOut>>

\* PDPAnswer that calls the PDP again after a transport failure
PDPAnswerRetry(c) ==
    /\ cpc[c] = "inflight"
    /\ \E o \in PDPOutcomes(cfn[c]) :
          /\ pdpOut' = [pdpOut EXCEPT ![c] = <<o>>]
          /\ IF o.kind = "neterr"
             THEN /\ cpc' = [cpc EXCEPT ![c] = "ready"]
                  /\ UNCHANGED <<ret, fail>>
             ELSE /\ cpc' = [cpc EXCEPT ![c] = "returned"]
                  /\ ret' = [ret EXCEPT ![c] = <<Resume(c, o).ret>>]
                  /\ fail' = [fail EXCEPT ![c] = Resume(c, o).fail]
    /\ UNCHANGED <<cfg, pvars, evars, hvars, cfn, cargs, sent>>

\* The PDP answers (or the timeout of httpClient ends the wait) and call c runs to
\* its return.
PDPAnswer(c) ==
    /\ cpc[c] = "inflight"
    /\ \E o \in PDPOutcomes(cfn[c]) :
          /\ pdpOut' = [pdpOut EXCEPT ![c] = <<o>>]
          /\ ret' = [ret EXCEPT ![c] = <<Resume(c, o).ret>>]
          /\ fail' = [fail EXCEPT ![c] = Resume(c, o).fail]
    /\ cpc' = [cpc EXCEPT ![c] = "returned"]
    /\ UNCHANGED <<cfg, pvars, evars, hvars, cfn, cargs, sent>>

(***************************************************************************)
(* Handler.                                                                *)
(***************************************************************************)
\* Handler up to the start of the two goroutines.  jwtAuthenticate either rejects
\* the token (401) or stores the principal.
HandlerStart ==
    /\ hpc = "idle"
    /\ served < MaxRequests
    /\ \E tokenOK \in BOOLEAN, m \in Methods, u \in OriginalURLs, p \in Principals :
          IF ~tokenOK
          THEN /\ response' = [status |-> StatusUnauthorized,
                               msg |-> "Missing or malformed token"]
               /\ hpc' = "done"
               /\ UNCHANGED <<hreq, cpc, cfn, cargs>>
          ELSE LET reqInfo == [Method |-> m, Path |-> u, FullURL |-> "",
                               Headers |-> EmptyMap]
                   args == [req |-> reqInfo, p |-> p, body |-> NoBody]
               IN  /\ hreq' = args
                   /\ cpc' = [cpc EXCEPT !["coarse"] = "ready", !["fine"] = "ready"]
                   /\ cfn' = [cfn EXCEPT !["coarse"] = "CheckCoarseAccess",
                                         !["fine"] = "CheckFineGrain"]
                   /\ cargs' = [cargs EXCEPT !["coarse"] = args, !["fine"] = args]
                   /\ hpc' = "recvCoarse"
                   /\ UNCHANGED response
    /\ UNCHANGED <<cfg, pvars, evars, coarseCh, fineCh, coarseRes, fineRes, proxied, served, order,
                   sent, pdpOut, ret, fail>>

\* coarseCh <- authResult{...}: the goroutine hands over its result and ends
SendCoarse ==
    /\ cpc["coarse"] = "returned"
    /\ Len(coarseCh) < ChanCap
    /\ coarseCh' = Append(coarseCh, ret["coarse"][1])
    /\ cpc' = [cpc EXCEPT !["coarse"] = "exited"]
    /\ order' = Append(order, "coarse")
    /\ UNCHANGED <<cfg, pvars, evars, hpc, hreq, fineCh, coarseRes, fineRes, response, proxied, served,
                   cfn, cargs, sent, pdpOut, ret, fail>>

\* fineCh <- authResult{...}
SendFine ==
    /\ cpc["fine"] = "returned"
    /\ Len(fineCh) < ChanCap
    /\ fineCh' = Append(fineCh, ret["fine"][1])
    /\ cpc' = [cpc EXCEPT !["fine"] = "exited"]
    /\ order' = Append(order, "fine")
    /\ UNCHANGED <<cfg, pvars, evars, hpc, hreq, coarseCh, coarseRes, fineRes, response, proxied, served,
                   cfn, cargs, sent, pdpOut, ret, fail>>

\* coarseRes := <-coarseCh
RecvCoarse ==
    /\ hpc = "recvCoarse"
    /\ coarseCh # <<>>
    /\ coarseRes' = Head(coarseCh)
    /\ coarseCh' = Tail(coarseCh)
    /\ hpc' = "recvFine"
    /\ UNCHANGED <<cfg, pvars, evars, hreq, fineCh, fineRes, response, proxied, served, order, cvars>>

\* RecvFine that does not wait for the fine-grained result
RecvFineNoWait ==
    /\ hpc = "recvFine"
    /\ fineRes' = IF fineCh # <<>> THEN Head(fineCh) ELSE Ret(TRUE, "", Nil)
    /\ fineCh' = IF fineCh # <<>> THEN Tail(fineCh) ELSE fineCh
    /\ hpc' = "decide"
    /\ UNCHANGED <<cfg, pvars, evars, hreq, coarseCh, coarseRes, response, proxied, served, order, cvars>>

\* fineRes := <-fineCh
RecvFine ==
    /\ hpc = "recvFine"
    /\ fineCh # <<>>
    /\ fineRes' = Head(fineCh)
    /\ fineCh' = Tail(fineCh)
    /\ hpc' = "decide"
    /\ UNCHANGED <<cfg, pvars, evars, hreq, coarseCh, coarseRes, response, proxied, served, order, cvars>>

\* Validate both results before proxying
HandlerDecide ==
    /\ hpc = "decide"
    /\ LET d == Decide(coarseRes, fineRes)
       IN  /\ response' = [status |-> d.status, msg |-> d.msg]
           /\ proxied' = IF d.proxy THEN proxied + 1 ELSE proxied
    /\ hpc' = "done"
    /\ UNCHANGED <<cfg, pvars, evars, hreq, coarseCh, fineCh, coarseRes, fineRes, served, order, cvars>>

\* The response is written and the frames of Handler and of its goroutines are gone;
\* the gateway is ready for the next request.
HandlerFinish ==
    /\ hpc = "done"
    /\ \A c \in Goroutines : cpc[c] \in {"idle", "exited"}
    /\ served' = served + 1
    /\ Reset
    /\ UNCHANGED <<cfg, pvars, evars>>

Next ==
    \/ HandlerStart
    \/ \E c \in Goroutines : CallRun(c)
    \/ \E c \in Goroutines : PDPAnswer(c)
    \/ SendCoarse
    \/ SendFine
    \/ RecvCoarse
    \/ RecvFine
    \/ HandlerDecide
    \/ HandlerFinish

Spec == Init /\ [][Next]_vars

(***************************************************************************)
(* Direct calls of the check functions (the package's entry points).       *)
(***************************************************************************)
ApiCall ==
    /\ cpc["api"] = "idle"
    /\ \E f \in ApiFns, r \in ApiRequests, p \in Principals, b \in Bodies :
          /\ f # "CheckPlainIdAccess" => b = BodyItems
          /\ cfn' = [cfn EXCEPT !["api"] = f]
          /\ cargs' = [cargs EXCEPT !["api"] =
                         [req |-> r, p |-> p,
                          body |-> IF f = "CheckPlainIdAccess" THEN b ELSE NoBody]]
    /\ cpc' = [cpc EXCEPT !["api"] = "ready"]
    /\ UNCHANGED <<cfg, pvars, evars, hvars, sent, pdpOut, ret, fail>>

\* The caller takes the tuple and the call's frame is gone; the next call can start.
ApiReturn ==
    /\ cpc["api"] = "returned"
    /\ Reset
    /\ UNCHANGED <<cfg, pvars, evars, served>>

NextApi ==
    \/ ApiCall
    \/ CallRun("api")
    \/ PDPAnswer("api")
    \/ ApiReturn

SpecApi == Init /\ [][NextApi]_vars

(***************************************************************************)
(* Properties.                                                             *)
(***************************************************************************)
\* The section of the configuration call c reads
SectionOf(c) ==
    IF cfn[c] \in {"CheckCoarse", "CheckCoarseAccess"} THEN cfg[1].Coarse
    ELSE cfg[1].FineGrain

\* No configuration is loaded, or the section of call c is disabled or has no URL
SectionOff(c) == cfg = <<>> \/ ~SectionOf(c).Enabled \/ SectionOf(c).ValidationURL = ""

\* The PDP answered call c with a 2xx status
Answered2xx(c) ==
    /\ pdpOut[c] # <<>>
    /\ pdpOut[c][1].kind = "resp"
    /\ pdpOut[c][1].status >= 200
    /\ pdpOut[c][1].status < 300

\* The PDP answered call c with a status that is not 2xx
AnsweredNon2xx(c) ==
    /\ pdpOut[c] # <<>>
    /\ pdpOut[c][1].kind = "resp"
    /\ (pdpOut[c][1].status < 200 \/ pdpOut[c][1].status >= 300)

\* C1: Handler calls doProxy only if both checks returned allow = true with a nil
\* error; when a check returned an error or a denial, the finished request was
\* answered 403 and doProxy was not called.
C1_ForwardOnlyIfBothAllow ==
    /\ proxied > 0 =>
          \A c \in Goroutines : ret[c] # <<>> /\ ret[c][1].allow /\ ret[c][1].err = Nil
    /\ (hpc = "done" /\ \E c \in Goroutines :
                           ret[c] # <<>> /\ (~ret[c][1].allow \/ ret[c][1].err # Nil))
          => response.status = StatusForbidden /\ proxied = 0

\* C1 witness: the coarse check allowed, the fine-grained one failed with an error,
\* and Handler rejected the request.
C1_Witness ==
    /\ hpc = "done"
    /\ response.status = StatusForbidden
    /\ ret["coarse"] # <<>> /\ ret["coarse"][1].allow /\ ret["coarse"][1].err = Nil
    /\ ret["fine"] # <<>> /\ ret["fine"][1].err # Nil

\* C2: Handler is past its two receives only when both goroutines have handed over
\* their tuple, and what it decides on are exactly the two tuples the checks
\* returned, whichever check finished first.
C2_DecidesAfterBothDelivered ==
    (hpc \in {"decide", "done"} /\ response.status # StatusUnauthorized) =>
        /\ \A c \in Goroutines : cpc[c] = "exited"
        /\ coarseRes = ret["coarse"][1]
        /\ fineRes = ret["fine"][1]

\* C2 witness: the fine-grained check delivered first, and Handler has decided.
C2_Witness ==
    /\ hpc = "done"
    /\ order = <<"fine", "coarse">>
    /\ response.status \in {StatusOK, StatusForbidden}

\* C3: for a decodable 2xx answer of the decision dialect the result follows
\* permit > deny > allow.
C3_PermitDenyAllowPrecedence ==
    \A c \in Calls :
        (cfn[c] = "CheckPlainIdAccess" /\ Answered2xx(c) /\ pdpOut[c][1].json) =>
            LET o == pdpOut[c][1]
                r == ret[c][1]
            IN  /\ o.permit # "" => r = Ret(TRUE, o.permit, Nil)
                /\ (o.permit = "" /\ o.deny # "") => r = Ret(FALSE, o.deny, Nil)
                /\ (o.permit = "" /\ o.deny = "") => r = Ret(o.allow, o.reason, Nil)

\* C3 witness: permit and deny both set, allow false; the check allowed.
C3_Witness ==
    \E c \in Calls :
        /\ cfn[c] = "CheckPlainIdAccess" /\ Answered2xx(c) /\ pdpOut[c][1].json
        /\ pdpOut[c][1].permit # "" /\ pdpOut[c][1].deny # "" /\ ~pdpOut[c][1].allow
        /\ ret[c][1].allow

\* C4: a returned non-nil error comes with allow = false, and a transport failure
\* returns (false, "", non-nil error), for each of the four check functions.
C4_ErrorImpliesDeny ==
    \A c \in Calls :
        ret[c] # <<>> =>
            /\ ret[c][1].err # Nil => ~ret[c][1].allow
            /\ (pdpOut[c] # <<>> /\ pdpOut[c][1].kind = "neterr") =>
                  (~ret[c][1].allow /\ ret[c][1].reason = "" /\ ret[c][1].err # Nil)

\* C4 witness: CheckCoarseAccess returned after the PDP was unreachable.
C4_Witness ==
    \E c \in Calls :
        /\ cfn[c] = "CheckCoarseAccess"
        /\ ret[c] # <<>>
        /\ pdpOut[c] # <<>> /\ pdpOut[c][1].kind = "neterr"

\* C5: every failure that keeps a check from a PDP decision is returned as a
\* non-nil error.
C5_EveryFailureIsAnError ==
    \A c \in Calls : (ret[c] # <<>> /\ fail[c] # "none") => ret[c][1].err # Nil

\* C6: with no configuration loaded, the section disabled or its validation URL
\* empty, a check sends nothing to the PDP and returns (true, non-empty reason, nil).
C6_SkipWhenNotConfigured ==
    \A c \in Calls :
        (cfn[c] # "" /\ SectionOff(c)) =>
            /\ sent[c] = <<>>
            /\ cpc[c] # "inflight"
            /\ ret[c] # <<>> =>
                  (ret[c][1].allow /\ ret[c][1].reason # "" /\ ret[c][1].err = Nil)

\* C6 witness: CheckPlainIdAccess returned under a configuration whose fine-grained
\* section is enabled with an empty validation URL.
C6_Witness ==
    \E c \in Calls :
        /\ cfn[c] = "CheckPlainIdAccess"
        /\ cfg # <<>> /\ cfg[1].FineGrain.Enabled /\ cfg[1].FineGrain.ValidationURL = ""
        /\ ret[c] # <<>>

\* No key of the coarse resource map matches the path of call c
CoarseUnmatched(c) ==
    \A k \in DOMAIN cfg[1].Coarse.ResourceMap :
        LET pm == splitMethod(normalizePattern(k))
        IN  ~pathMatch(pm.pattern, cargs[c].req.Path).matched

\* C7: coarse section enabled with a URL and no pattern matching the path: the
\* coarse check sends nothing and returns (anonymous-access flag, non-empty reason,
\* nil).
C7_CoarseUnmatchedFollowsAnonymousFlag ==
    \A c \in Calls :
        (cfn[c] \in {"CheckCoarse", "CheckCoarseAccess"} /\ ~SectionOff(c)
           /\ CoarseUnmatched(c)) =>
            /\ sent[c] = <<>>
            /\ cpc[c] # "inflight"
            /\ ret[c] # <<>> =>
                  /\ ret[c][1].allow = cfg[1].Coarse.AnonymousAccess
                  /\ ret[c][1].reason # ""
                  /\ ret[c][1].err = Nil

\* C7 witness: CheckCoarseAccess allowed an unmatched path under anonymous-access.
C7_Witness ==
    \E c \in Calls :
        /\ cfn[c] = "CheckCoarseAccess" /\ ~SectionOff(c) /\ CoarseUnmatched(c)
        /\ cfg[1].Coarse.AnonymousAccess
        /\ ret[c] # <<>> /\ ret[c][1].allow

\* No key of the fine-grained resource map matches method and path of call c
FineUnmatched(c) ==
    \A k \in DOMAIN cfg[1].FineGrain.ResourceMap :
        LET pm == splitMethod(normalizePattern(k))
        IN  \/ (pm.has /\ pm.method # ToUpper(cargs[c].req.Method))
            \/ ~pathMatch(pm.pattern, cargs[c].req.Path).matched

\* C8: fine-grained section enabled with a URL and no rule matching method and
\* path: CheckFineGrain sends nothing and returns (true, "fine-grain check skipped
\* (no matching rule)", nil); CheckPlainIdAccess skips the same way under its own
\* reason text.
C8_FineUnmatchedSkips ==
    \A c \in Calls :
        (cfn[c] \in {"CheckFineGrain", "CheckPlainIdAccess"} /\ ~SectionOff(c)
           /\ FineUnmatched(c)) =>
            /\ sent[c] = <<>>
            /\ cpc[c] # "inflight"
            /\ ret[c] # <<>> =>
                  ret[c][1] = Ret(TRUE,
                                  IF cfn[c] = "CheckFineGrain"
                                  THEN "fine-grain check skipped (no matching rule)"
                                  ELSE "plainId check skipped (no matching rule)",
                                  Nil)

\* C8 witness: CheckFineGrain returned for a request whose path has a rule for
\* another method only.
C8_Witness ==
    \E c \in Calls :
        /\ cfn[c] = "CheckFineGrain" /\ ~SectionOff(c) /\ FineUnmatched(c)
        /\ cargs[c].req.Path = "/a" /\ ToUpper(cargs[c].req.Method) = "GET"
        /\ ret[c] # <<>>

\* C9 as stated: after a non-2xx answer or an undecodable 2xx body the check returns
\* allow = false, a non-nil error and a non-empty reason.
C9_ProtocolErrorHasReason ==
    \A c \in Calls :
        (ret[c] # <<>> /\ (AnsweredNon2xx(c) \/ (Answered2xx(c) /\ ~pdpOut[c][1].json))) =>
            (~ret[c][1].allow /\ ret[c][1].err # Nil /\ ret[c][1].reason # "")

\* The fixed reason of call c for a non-2xx answer
Non2xxReason(c) ==
    IF cfn[c] = "CheckPlainIdAccess" THEN "non-2xx from plainId service"
    ELSE "non-2xx from validation service"

\* C9 amended: a non-2xx answer returns allow = false, a non-nil error and the fixed
\* reason; an undecodable 2xx body returns allow = false, a non-nil error and an
\* empty reason.
C9_ProtocolErrorDenies ==
    \A c \in Calls :
        ret[c] # <<>> =>
            /\ AnsweredNon2xx(c) =>
                  (~ret[c][1].allow /\ ret[c][1].err # Nil
                     /\ ret[c][1].reason = Non2xxReason(c))
            /\ (Answered2xx(c) /\ ~pdpOut[c][1].json) =>
                  (~ret[c][1].allow /\ ret[c][1].err # Nil /\ ret[c][1].reason = "")

\* C9 witness: a check returned after a 2xx answer whose body does not decode.
C9_Witness ==
    \E c \in Calls :
        /\ ret[c] # <<>> /\ Answered2xx(c) /\ ~pdpOut[c][1].json
        /\ ret[c][1].reason = "" /\ ret[c][1].err # Nil

\* The PDP call of c failed: no answer, a non-2xx status, or an undecodable body
PDPCallFailed(c) ==
    /\ pdpOut[c] # <<>>
    /\ (pdpOut[c][1].kind = "neterr" \/ AnsweredNon2xx(c) \/ ~pdpOut[c][1].json)

\* C10: a call of a check sends at most one HTTP request, and after a failed PDP
\* call it has returned an error without sending again.
C10_AtMostOneRequestNoRetry ==
    \A c \in Calls :
        /\ Len(sent[c]) <= 1
        /\ PDPCallFailed(c) =>
              /\ cpc[c] \in {"returned", "exited"}
              /\ ret[c] # <<>> /\ ret[c][1].err # Nil
              /\ Len(sent[c]) = 1

\* C10 witness: a call returned after a transport failure, one request sent.
C10_Witness ==
    \E c \in Calls :
        /\ pdpOut[c] # <<>> /\ pdpOut[c][1].kind = "neterr"
        /\ cpc[c] = "returned"
        /\ Len(sent[c]) = 1

\* Some key of the section's resource map matches the request of call c
Matched(c) ==
    IF cfn[c] \in {"CheckCoarse", "CheckCoarseAccess"}
    THEN ~CoarseUnmatched(c)
    ELSE ~FineUnmatched(c)

\* The section of call c names a client-auth method other than client_secret_basic
AuthUnsupported(c) == SectionOf(c).ClientAuthMethod \notin {"", "client_secret_basic"}

\* C11: a check that gets to its PDP call (section on, a rule matched, a validation
\* URL a request can be made for) under a client-auth method that is non-empty and
\* not client_secret_basic returns (false, "", non-nil error); under such a method
\* no HTTP request is ever sent.
C11_UnsupportedAuthMethodIsAnError ==
    \A c \in Calls :
        (cfn[c] # "" /\ ~SectionOff(c) /\ AuthUnsupported(c)) =>
            /\ sent[c] = <<>>
            /\ cpc[c] # "inflight"
            /\ (Matched(c) /\ urlParseErr(SectionOf(c).ValidationURL) = Nil
                  /\ ret[c] # <<>>) =>
                  (~ret[c][1].allow /\ ret[c][1].reason = "" /\ ret[c][1].err # Nil)

\* C11 witness: CheckPlainIdAccess built its request and returned the error of the
\* unsupported method.
C11_Witness ==
    \E c \in Calls :
        /\ cfn[c] = "CheckPlainIdAccess" /\ ~SectionOff(c) /\ AuthUnsupported(c)
        /\ Matched(c)
        /\ ret[c] # <<>>
        /\ ret[c][1].err = "unsupported client auth method: private_key_jwt"

\* The rules MatchRule can return for the request of call c
RulesOf(c) ==
    {m.rule : m \in {x \in MatchRule(cfg[1].FineGrain, cargs[c].req.Method,
                                     cargs[c].req.Path) : x.ok}}

\* Some entry of rule's body map cannot be extracted from the body of call c
ExtractionFails(c, rule) ==
    \E f \in DOMAIN rule.Body :
        extractValueFromPath(cargs[c].body, rule.Body[f]).err # Nil

\* C12: when the matched rule has a body entry that cannot be extracted,
\* CheckPlainIdAccess returns allow = false with a non-nil error and sends nothing;
\* a decision request that is sent holds every field the rule declares.
C12_ExtractionFailureAbortsBuild ==
    \A c \in Calls :
        (cfn[c] = "CheckPlainIdAccess" /\ ~SectionOff(c)) =>
            /\ (RulesOf(c) # {} /\ \A rule \in RulesOf(c) : ExtractionFails(c, rule)) =>
                  /\ sent[c] = <<>>
                  /\ cpc[c] # "inflight"
                  /\ ret[c] # <<>> => (~ret[c][1].allow /\ ret[c][1].err # Nil)
            /\ sent[c] # <<>> =>
                  \E rule \in RulesOf(c) : DOMAIN sent[c][1].body.Body = DOMAIN rule.Body

\* C12 witness: the rule of POST /a declares ids and tUsed, the body has no items,
\* and CheckPlainIdAccess returned the build error.
C12_Witness ==
    \E c \in Calls :
        /\ cfn[c] = "CheckPlainIdAccess" /\ ~SectionOff(c)
        /\ cargs[c].body = BodyNoItems
        /\ RulesOf(c) # {} /\ \A rule \in RulesOf(c) : ExtractionFails(c, rule)
        /\ ret[c] # <<>> /\ ret[c][1].err # Nil /\ sent[c] = <<>>

(***************************************************************************)
(* Direct applications of the package's functions.                         *)
(***************************************************************************)
\* The process has started and no configuration is loaded
InitFn ==
    /\ cfg = <<>>
    /\ served = 0
    /\ Quiet
    /\ pfn = ""
    /\ pin = <<>>
    /\ pout = <<>>
    /\ tokens = EmptyMap
    /\ tokenFiles = EmptyMap
    /\ now = 0

\* c.Coarse.MatchResource(path)
CallMatchResource ==
    /\ pfn = ""
    /\ \E ks \in KeySets, path \in FnPaths :
          LET c == [ResourceMap |-> CoarseResources(ks)]
          IN  /\ pin' = [c |-> c, path |-> path]
              /\ pout' \in MatchResource(c, path)
    /\ pfn' = "MatchResource"
    /\ UNCHANGED <<cfg, evars, hvars, cvars>>

\* c.FineGrain.MatchRule(method, path)
CallMatchRule ==
    /\ pfn = ""
    /\ \E ks \in KeySets, method \in FnMethods, path \in FnPaths :
          LET f == [ResourceMap |-> FineResources(ks)]
          IN  /\ pin' = [f |-> f, method |-> method, path |-> path]
              /\ pout' \in MatchRule(f, method, path)
    /\ pfn' = "MatchRule"
    /\ UNCHANGED <<cfg, evars, hvars, cvars>>

\* pathMatch(pattern, path)
CallPathMatch ==
    /\ pfn = ""
    /\ \E pattern \in FnPatterns, path \in FnPaths \cup StarPaths :
          /\ pin' = [pattern |-> pattern, path |-> path]
          /\ pout' = pathMatch(pattern, path)
    /\ pfn' = "pathMatch"
    /\ UNCHANGED <<cfg, evars, hvars, cvars>>

\* extractValueFromPath(data, jsonPath)
CallExtractValueFromPath ==
    /\ pfn = ""
    /\ \E data \in FnBodies, jsonPath \in FnJsonPaths :
          /\ pin' = [data |-> data, jsonPath |-> jsonPath]
          /\ pout' = extractValueFromPath(data, jsonPath)
    /\ pfn' = "extractValueFromPath"
    /\ UNCHANGED <<cfg, evars, hvars, cvars>>

\* buildPlainIdRequest(req, p, rule, bodyData)
CallBuildPlainIdRequest ==
    /\ pfn = ""
    /\ \E req \in FnRequests, p \in Principals, rule \in FnRules,
          bodyData \in {FullBody, SparseBody, ScalarUserBody} :
          /\ pin' = [req |-> req, p |-> p, rule |-> rule, bodyData |-> bodyData]
          /\ pout' \in buildPlainIdRequest(req, p, rule, bodyData)
    /\ pfn' = "buildPlainIdRequest"
    /\ UNCHANGED <<cfg, evars, hvars, cvars>>

\* The caller has taken the result
FnReturn ==
    /\ pfn # ""
    /\ pfn' = ""
    /\ pin' = <<>>
    /\ pout' = <<>>
    /\ UNCHANGED <<cfg, evars, hvars, cvars>>

NextFn ==
    \/ CallMatchResource
    \/ CallMatchRule
    \/ CallPathMatch
    \/ CallExtractValueFromPath
    \/ CallBuildPlainIdRequest
    \/ FnReturn

SpecFn == InitFn /\ [][NextFn]_vars

\* The path pattern of key k, its method suffix and surrounding brackets taken off
PatternOf(k) == splitMethod(normalizePattern(k)).pattern

\* The keys of the map in pin that are candidates for the request in pin
Candidates ==
    IF pfn = "MatchResource"
    THEN {k \in DOMAIN pin.c.ResourceMap : pathMatch(PatternOf(k), pin.path).matched}
    ELSE {k \in DOMAIN pin.f.ResourceMap :
            /\ pathMatch(PatternOf(k), pin.path).matched
            /\ (splitMethod(normalizePattern(k)).has =>
                  splitMethod(normalizePattern(k)).method = ToUpper(pin.method))}

\* The candidates of the greatest specificity
MostSpecific ==
    {k \in Candidates :
       \A k2 \in Candidates :
          pathMatch(PatternOf(k2), pin.path).spec <= pathMatch(PatternOf(k), pin.path).spec}

\* What the matcher returns when it selects key k
Selected(k) ==
    IF pfn = "MatchResource"
    THEN [resource |-> pin.c.ResourceMap[k], ok |-> TRUE]
    ELSE [rule |-> pin.f.ResourceMap[k], ok |-> TRUE]

\* C13: MatchResource and MatchRule report a match exactly when some key is a
\* candidate, return the value of a candidate of the greatest specificity, and
\* return the one of strictly greatest specificity when there is one.
C13_MostSpecificRuleSelected ==
    pfn \in {"MatchResource", "MatchRule"} =>
        /\ pout.ok <=> Candidates # {}
        /\ pout.ok => \E k \in MostSpecific : pout = Selected(k)
        /\ \A k \in MostSpecific : MostSpecific = {k} => pout = Selected(k)

\* C13 witness: the only key of the map is the empty string, which matches the path
\* "/", and MatchResource reports no match.
C13_Witness ==
    /\ pfn = "MatchResource"
    /\ DOMAIN pin.c.ResourceMap = {""}
    /\ pin.path = "/"
    /\ Candidates = {""}
    /\ ~pout.ok

\* C13 for resource maps without the empty key
C13_MostSpecificRuleSelectedNonEmptyKeys ==
    ((pfn = "MatchResource" /\ "" \notin DOMAIN pin.c.ResourceMap)
       \/ (pfn = "MatchRule" /\ "" \notin DOMAIN pin.f.ResourceMap)) =>
        /\ pout.ok <=> Candidates # {}
        /\ pout.ok => \E k \in MostSpecific : pout = Selected(k)
        /\ \A k \in MostSpecific : MostSpecific = {k} => pout = Selected(k)

\* The segments of a pattern or path
Segments(p) == Split(TrimPrefix(p, "/"), "/")

\* Patterns p and q differ in segment i and nowhere else
DiffersOnlyAt(p, q, i) ==
    /\ Len(Segments(p)) = Len(Segments(q))
    /\ i \in 1..Len(Segments(p))
    /\ \A j \in 1..Len(Segments(p)) : (Segments(p)[j] = Segments(q)[j]) <=> (j # i)

Literal(seg) == seg \notin {"*", "**"}

\* Pattern q matches the path in pin, is pin.pattern but for segment i, has lower at
\* segment i where pin.pattern has upper, and scores strictly less than pin.pattern.
OutscoredAt(q, i, upper, lower) ==
    (/\ DiffersOnlyAt(pin.pattern, q, i)
     /\ pathMatch(q, pin.path).matched
     /\ IF upper = "literal" THEN Literal(Segments(pin.pattern)[i])
                             ELSE Segments(pin.pattern)[i] = upper
     /\ Segments(q)[i] = lower)
    => pathMatch(q, pin.path).spec < pout.spec

\* C14: of two patterns that match a path and differ in one segment only, the one
\* with a literal there scores strictly higher than the one with "*" there, and
\* the one with "*" there strictly higher than the one with "**" there.
C14_LiteralOverStarOverDoubleStar ==
    (pfn = "pathMatch" /\ pout.matched) =>
        \A q \in FnPatterns : \A i \in 1..Len(Segments(q)) :
            /\ OutscoredAt(q, i, "literal", "*")
            /\ OutscoredAt(q, i, "*", "**")

\* C14 witness: "/a/*" and "/a/**" both match "/a/b" and both score 6.
C14_Witness ==
    /\ pfn = "pathMatch"
    /\ pin = [pattern |-> "/a/*", path |-> "/a/b"]
    /\ pout.matched
    /\ pathMatch("/a/**", "/a/b") = pout

\* C14, the part that holds: a literal segment outscores "*" and "**" at its
\* position, and "*" never scores less than "**" (for a path that is not the text
\* of the "**" pattern itself, which is an exact match).
C14_LiteralOutscoresWildcards ==
    (pfn = "pathMatch" /\ pout.matched) =>
        \A q \in FnPatterns : \A i \in 1..Len(Segments(q)) :
            /\ OutscoredAt(q, i, "literal", "*")
            /\ OutscoredAt(q, i, "literal", "**")
            /\ (DiffersOnlyAt(pin.pattern, q, i) /\ pathMatch(q, pin.path).matched
                  /\ Segments(pin.pattern)[i] = "*" /\ Segments(q)[i] = "**"
                  /\ pin.path # q)
                  => pathMatch(q, pin.path).spec <= pout.spec

\* Key k of a fine-grained resource map, read as the configuration format defines
\* it: brackets off, then "path" or "path:METHOD" split at the last colon.
KeyBody(k) ==
    LET t == TrimSpace(k)
    IN  IF HasPrefix(t, "[") /\ HasSuffix(t, "]") THEN SubSeq(t, 2, Len(t) - 1) ELSE t

HasMethodSuffix(k) == Contains(KeyBody(k), ":")

KeyPath(k) ==
    IF HasMethodSuffix(k)
    THEN SubSeq(KeyBody(k), 1, LastIndex(KeyBody(k), ":") - 1)
    ELSE KeyBody(k)

KeyMethod(k) == SubSeq(KeyBody(k), LastIndex(KeyBody(k), ":") + 1, Len(KeyBody(k)))

\* Key k may be selected for the method and path in pin
MayApply(k) ==
    /\ pathMatch(KeyPath(k), pin.path).matched
    /\ HasMethodSuffix(k) => EqualFold(TrimSpace(KeyMethod(k)), pin.method)

\* C15: MatchRule returns the rule of a key with a method suffix only for a request
\* whose method equals the suffix, case ignored, and whose path matches; a key
\* without a suffix makes MatchRule find a rule for every method when the path
\* matches (in a map that has no empty key); with no key that may apply it finds
\* none.
C15_MethodSuffixRestrictsRule ==
    pfn = "MatchRule" =>
        LET keys == DOMAIN pin.f.ResourceMap
        IN  /\ pout.ok => \E k \in keys : pout.rule = pin.f.ResourceMap[k] /\ MayApply(k)
            /\ ("" \notin keys /\ \E k \in keys : ~HasMethodSuffix(k)
                                   /\ pathMatch(KeyPath(k), pin.path).matched) => pout.ok
            /\ (\A k \in keys : ~MayApply(k)) => ~pout.ok

\* C15 witness: the key "[/a/b: post ]" gave its rule to a request "post /a/b",
\* with the suffix-less key "[/a]" in the same map.
C15_Witness ==
    /\ pfn = "MatchRule"
    /\ DOMAIN pin.f.ResourceMap = {"[/a/b: post ]", "[/a]"}
    /\ pin.method = "post"
    /\ pin.path = "/a/b"
    /\ pout.ok
    /\ pout.rule.RulesetName = "rule:[/a/b: post ]"

\* The field names of the simple or nested path in pin
PathFields == Split(TrimPrefix(TrimPrefix(pin.jsonPath, "$"), "."), ".")

ExistenceName(name) == Contains(name, "Used") \/ Contains(name, "Exists")

\* What the extractor owes for a field that object obj lacks or holds
FieldResult(obj, name) ==
    IF name \in DOMAIN obj.v
    THEN pout = [val |-> obj.v[name], err |-> Nil]
    ELSE IF ExistenceName(name)
    THEN pout = [val |-> JBool(FALSE), err |-> Nil]
    ELSE pout.err # Nil

TargetField(jsonPath) == TrimPrefix(jsonPath, "$.")

\* C17: for a body entry whose field name contains "Used" or "Exists" and whose
\* path names another field, the build succeeds (its URL being well-formed) and the
\* built body holds the target's value when the request body has it and false when
\* it has not.
C17_ExistenceEntryByFieldName ==
    (pfn = "buildPlainIdRequest" /\ urlParseErr(pin.req.FullURL) = Nil) =>
        \A f \in DOMAIN pin.rule.Body :
            (ExistenceName(f) /\ TargetField(pin.rule.Body[f]) # f
               /\ DOMAIN pin.rule.Body = {f}) =>
                /\ pout.err = Nil
                /\ pout.val[1].Body[f] =
                      IF TargetField(pin.rule.Body[f]) \in DOMAIN pin.bodyData.v
                      THEN pin.bodyData.v[TargetField(pin.rule.Body[f])]
                      ELSE JBool(FALSE)

\* C17 witness: the rule declares templateUsed: $.templateId, the request body has
\* no templateId, and the build failed.
C17_Witness ==
    /\ pfn = "buildPlainIdRequest"
    /\ urlParseErr(pin.req.FullURL) = Nil
    /\ pin.rule.Body = ("templateUsed" :> "$.templateId")
    /\ "templateId" \notin DOMAIN pin.bodyData.v
    /\ pout.err # Nil

\* C17, the part that holds: with templateId present the built body holds its value.
C17_PresentTargetIsCopied ==
    (pfn = "buildPlainIdRequest" /\ urlParseErr(pin.req.FullURL) = Nil
       /\ pin.rule.Body = ("templateUsed" :> "$.templateId")
       /\ "templateId" \in DOMAIN pin.bodyData.v) =>
        /\ pout.err = Nil
        /\ pout.val[1].Body["templateUsed"] = pin.bodyData.v["templateId"]

\* The inbound header names that are key, case ignored
Named(key) == {k \in DOMAIN pin.req.Headers : EqualFold(k, key)}

\* C19: a built decision request has the header x-request-id, with the value of an
\* inbound X-Request-Id header found case-insensitively; it has Authorization
\* exactly when the inbound request has an Authorization header, case ignored; it
\* has no other header.
C19_OnlyRequestIdAndAuthorization ==
    (pfn = "buildPlainIdRequest" /\ pout.err = Nil) =>
        LET h == pout.val[1].Headers
        IN  /\ "x-request-id" \in DOMAIN h
            /\ h["x-request-id"] \in
                  IF Named("X-Request-Id") = {} THEN {""}
                  ELSE {pin.req.Headers[k] : k \in Named("X-Request-Id")}
            /\ ("Authorization" \in DOMAIN h) <=> (Named("Authorization") # {})
            /\ "Authorization" \in DOMAIN h =>
                  h["Authorization"] \in {pin.req.Headers[k] : k \in Named("Authorization")}
            /\ DOMAIN h \subseteq {"x-request-id", "Authorization"}

\* C19 witness: the inbound request has the header "authorization" and the built
\* request has no Authorization header.
C19_Witness ==
    /\ pfn = "buildPlainIdRequest"
    /\ pout.err = Nil
    /\ "authorization" \in DOMAIN pin.req.Headers
    /\ "Authorization" \notin DOMAIN pout.val[1].Headers

\* C19, the part that holds: x-request-id is always there with a value found
\* case-insensitively, Authorization is there exactly when the inbound map has the
\* key "Authorization" in this spelling, and no other header is.
C19_HeadersAsBuilt ==
    (pfn = "buildPlainIdRequest" /\ pout.err = Nil) =>
        LET h == pout.val[1].Headers
        IN  /\ "x-request-id" \in DOMAIN h
            /\ h["x-request-id"] \in
                  IF Named("X-Request-Id") = {} THEN {""}
                  ELSE {pin.req.Headers[k] : k \in Named("X-Request-Id")}
            /\ ("Authorization" \in DOMAIN h) <=> ("Authorization" \in DOMAIN pin.req.Headers)
            /\ "Authorization" \in DOMAIN h => h["Authorization"] = pin.req.Headers["Authorization"]
            /\ DOMAIN h \subseteq {"x-request-id", "Authorization"}

\* The value the prefix of the wildcard path in pin leads to, null if nothing is there
ArrayOfPin ==
    IF pin.jsonPath = "$.arr[*].f"
    THEN IF "arr" \in DOMAIN pin.data.v THEN pin.data.v["arr"] ELSE JNull
    ELSE IF "a" \in DOMAIN pin.data.v /\ pin.data.v["a"].t = "obj"
            /\ "b" \in DOMAIN pin.data.v["a"].v /\ pin.data.v["a"].v["b"].t = "obj"
            /\ "arr" \in DOMAIN pin.data.v["a"].v["b"].v
    THEN pin.data.v["a"].v["b"].v["arr"]
    ELSE JNull

\* C18: "$.arr[*].f" and "$.a.b.arr[*].f", applied to an array of N objects that
\* each contain f, give without error N values, the i-th being the f of the i-th
\* element.
C18_WildcardKeepsLengthAndOrder ==
    (/\ pfn = "extractValueFromPath"
     /\ pin.jsonPath \in WildcardPaths
     /\ ArrayOfPin.t = "arr"
     /\ \A i \in 1..Len(ArrayOfPin.v) :
           ArrayOfPin.v[i].t = "obj" /\ "f" \in DOMAIN ArrayOfPin.v[i].v)
    => /\ pout.err = Nil
       /\ pout.val.t = "arr"
       /\ Len(pout.val.v) = Len(ArrayOfPin.v)
       /\ \A i \in 1..Len(ArrayOfPin.v) : pout.val.v[i] = ArrayOfPin.v[i].v["f"]

\* C18 witness: three elements behind the nested prefix, three values returned.
C18_Witness ==
    /\ pfn = "extractValueFromPath"
    /\ pin.jsonPath = "$.a.b.arr[*].f"
    /\ pin.data = ArrayBody(MaxArrayLen)
    /\ pout.err = Nil
    /\ Len(pout.val.v) = MaxArrayLen

(***************************************************************************)
(* Loading the configuration.                                              *)
(***************************************************************************)
\* Load(path)
CallLoad ==
    /\ pfn = ""
    /\ \E file \in Files :
          /\ pin' = [file |-> file, before |-> cfg]
          /\ pout' = [err |-> Load(file, cfg).err]
          /\ cfg' = Load(file, cfg).cfg
    /\ pfn' = "Load"
    /\ UNCHANGED <<evars, hvars, cvars>>

NextLoad ==
    \/ CallLoad
    \/ FnReturn

SpecLoad == InitFn /\ [][NextLoad]_vars

\* URL u has a character that is not white space
NonBlank(u) == \E i \in 1..Len(u) : CharAt(u, i) \notin {" ", "\t", "\n", "\r"}

\* The file Load read gives no section that is enabled with a non-blank URL
Unusable(file) ==
    \/ file.kind # "yaml"
    \/ /\ ~(file.c.Coarse.Enabled /\ NonBlank(file.c.Coarse.ValidationURL))
       /\ ~(file.c.FineGrain.Enabled /\ NonBlank(file.c.FineGrain.ValidationURL))

\* C20: Load fails when the file is unreadable, is not YAML, or has no section
\* enabled with a non-blank validation URL; a failed Load leaves the stored
\* configuration as it was, a successful one stores the parsed configuration.
C20_LoadValidatesAndReplaces ==
    pfn = "Load" =>
        /\ Unusable(pin.file) => pout.err # Nil
        /\ pout.err # Nil => cfg = pin.before
        /\ pout.err = Nil => cfg = <<pin.file.c>>

\* C20 witness: a configuration was stored, then Load read a file whose only enabled
\* section has a blank URL, failed, and the stored configuration is still there.
C20_Witness ==
    /\ pfn = "Load"
    /\ pin.before # <<>>
    /\ pin.file.kind = "yaml"
    /\ pin.file.c.Coarse.Enabled /\ pin.file.c.Coarse.ValidationURL = BlankURL
    /\ pout.err # Nil
    /\ cfg = pin.before

(***************************************************************************)
(* The configuration during the checks.                                    *)
(***************************************************************************)
\* C21: no step of Handler, of its two concurrently running checks or of the
\* helpers they call changes the loaded configuration: the pointer, the resource
\* maps and the rules stay what Load left.
C21_ChecksNeverWriteConfig == [][cfg' = cfg]_vars

\* C21 witness: a configuration is loaded, the coarse check is waiting for the PDP
\* and the fine-grained check, started with it, has already returned.
C21_Witness ==
    /\ cfg # <<>>
    /\ cpc["coarse"] = "inflight"
    /\ cpc["fine"] = "returned"

(***************************************************************************)
(* CheckCoarse: the decision and the payload.                              *)
(***************************************************************************)
\* The resources resource map m gives for path: those of the matching keys no other
\* matching key exceeds in specificity
BestResources(m, path) ==
    LET score(k) == pathMatch(PatternOf(k), path)
    IN  {m[k] : k \in {x \in DOMAIN m :
                         /\ score(x).matched
                         /\ \A y \in DOMAIN m : score(y).matched => score(y).spec <= score(x).spec}}

\* C22: when a key of the coarse resource map matches the path and the PDP answers
\* CheckCoarse with a 2xx status and a JSON body {allow, reason}, CheckCoarse returns
\* (allow, reason, nil), and the one payload it posted carries the principal, the
\* method and the path of the request and the resource of the best-matching key.
C22_CoarseReturnsDecisionAndPayload ==
    (/\ cfn["api"] = "CheckCoarse"
     /\ cpc["api"] = "returned"
     /\ ~SectionOff("api")
     /\ Matched("api")
     /\ Answered2xx("api")
     /\ pdpOut["api"][1].json)
    => /\ ret["api"] = <<Ret(pdpOut["api"][1].allow, pdpOut["api"][1].reason, Nil)>>
       /\ Len(sent["api"]) = 1
       /\ sent["api"][1].body.Principal = cargs["api"].p
       /\ sent["api"][1].body.Request.Method = cargs["api"].req.Method
       /\ sent["api"][1].body.Request.Path = cargs["api"].req.Path
       /\ sent["api"][1].body.Resource
             \in BestResources(cfg[1].Coarse.ResourceMap, cargs["api"].req.Path)

\* C22 witness: "/a/b" matched "[/a/*]", the PDP answered 200 {allow: true}, and
\* CheckCoarse returned (true, "", nil) after posting the resource of that key.
C22_Witness ==
    /\ cfn["api"] = "CheckCoarse"
    /\ cpc["api"] = "returned"
    /\ cargs["api"].req.Path = "/a/b"
    /\ Answered2xx("api")
    /\ pdpOut["api"][1].json
    /\ pdpOut["api"][1].allow
    /\ pdpOut["api"][1].reason = ""
    /\ ret["api"] = <<Ret(TRUE, "", Nil)>>
    /\ sent["api"][1].body.Resource = "res-a-child"

(***************************************************************************)
(* The method suffix "*".                                                  *)
(***************************************************************************)
\* The key of the fine-grained maps that has the method suffix "*"
StarKey == "[/a/b:*]"

\* C23: a key with the method suffix "*" gives its path a rule for all HTTP
\* methods: with "[/a/b:*]" in the map, MatchRule finds a rule for "/a/b" whatever
\* the method.
C23_StarSuffixMatchesAllMethods ==
    (/\ pfn = "MatchRule"
     /\ StarKey \in DOMAIN pin.f.ResourceMap
     /\ pin.path = "/a/b")
    => pout.ok

\* C23 witness: the only key is "[/a/b:*]" and MatchRule was asked for "GET /a/b".
C23_Witness ==
    /\ pfn = "MatchRule"
    /\ DOMAIN pin.f.ResourceMap = {StarKey}
    /\ pin.method = "GET"
    /\ pin.path = "/a/b"

\* What MatchRule does with the suffix: "*" is compared with the method like any
\* other suffix, so for the methods GET, POST and PUT the rule of "[/a/b:*]" is never
\* the one returned, and a map with no other key gives no rule.
C23_StarSuffixIsCompared ==
    (pfn = "MatchRule" /\ StarKey \in DOMAIN pin.f.ResourceMap)
    => /\ pout.ok => pout.rule # pin.f.ResourceMap[StarKey]
       /\ DOMAIN pin.f.ResourceMap = {StarKey} => ~pout.ok

(***************************************************************************)
(* Token storage of the egress proxy (tokenstorage/storage.go).  The map   *)
(* ts.tokens and the files of ts.tokenDir are functions from the IDP type; *)
(* a time is a number of ticks of the clock.                               *)
(***************************************************************************)
\* ts.tokens[idpType] = tokenEntry{...}, and the same for a file of tokenDir
Put(m, k, v) == [x \in DOMAIN m \cup {k} |-> IF x = k THEN v ELSE m[x]]

\* delete(ts.tokens, idpType)
Delete(m, k) == [x \in DOMAIN m \ {k} |-> m[x]]

\* SaveToken: the entry is stored before the file is written; writeOK is whether
\* os.WriteFile succeeds (it fails when tokenDir is missing or not writable).
SaveToken(toks, files, t, idpType, token, expiresIn, writeOK) ==
    [tokens |-> Put(toks, idpType, [token |-> token, expiresAt |-> t + expiresIn]),
     files  |-> IF writeOK THEN Put(files, idpType, token) ELSE files,
     err    |-> IF writeOK THEN Nil ELSE "open " \o idpType \o "-token.txt: permission denied"]

\* GetToken
GetToken(toks, files, t, idpType) ==
    IF idpType \in DOMAIN toks /\ toks[idpType].expiresAt > t
    THEN [token |-> toks[idpType].token, err |-> Nil]
    ELSE IF idpType \notin DOMAIN files
    THEN [token |-> "", err |-> "token not found for IDP type '" \o idpType \o "'"]
    ELSE [token |-> files[idpType], err |-> Nil]

\* TokenExists
TokenExists(toks, files, t, idpType) ==
    IF idpType \in DOMAIN toks /\ toks[idpType].expiresAt > t
    THEN TRUE
    ELSE idpType \in DOMAIN files

\* ClearToken
ClearToken(toks, files, idpType) ==
    [tokens |-> Delete(toks, idpType),
     files  |-> Delete(files, idpType),
     err    |-> IF idpType \in DOMAIN files THEN Nil
                ELSE "remove " \o idpType \o "-token.txt: no such file or directory"]

(***************************************************************************)
(* Egress proxy Handler (egressproxy/handler.go).  The inbound request c   *)
(* has Method, Path, Query, Body and Headers; the header names are in the  *)
(* canonical form the server's parser gives them.                          *)
(***************************************************************************)
BadRequest == 400
InternalServerError == 500
BadGateway == 502

\* c.Get(key)
Get(c, key) == IF key \in DOMAIN c.Headers THEN c.Headers[key] ELSE ""

excludeHeaders == {"Host", "Content-Length", "X-Backend-Url", "X-Idp-Type"}

\* getToken(idpType)
getToken(toks, files, t, idpType) == GetToken(toks, files, t, idpType)

\* createHTTPRequest as it was before the comparison with the lower-cased "noidp"
createHTTPRequestMixedCase(c, targetURL, idpType, toks, files, t) ==
    IF NewRequestErr(targetURL) # Nil
    THEN [req |-> <<>>, err |-> NewRequestErr(targetURL)]
    ELSE LET copied == [k \in DOMAIN c.Headers \ excludeHeaders |-> c.Headers[k]]
             tok == getToken(toks, files, t, idpType)
             header == IF idpType # "noIdp" /\ tok.err = Nil /\ tok.token # ""
                       THEN ("Authorization" :> ("Bearer " \o tok.token)) @@ copied
                       ELSE copied
         IN  [req |-> <<[Method |-> c.Method, URL |-> targetURL, Header |-> header,
                         Body |-> IF c.Method # "GET" /\ c.Method # "HEAD" THEN c.Body
                                  ELSE ""]>>,
              err |-> Nil]

\* createHTTPRequest: (req, err), req a pointer
createHTTPRequest(c, targetURL, idpType, toks, files, t) ==
    IF NewRequestErr(targetURL) # Nil
    THEN [req |-> <<>>, err |-> NewRequestErr(targetURL)]
    ELSE LET copied == [k \in DOMAIN c.Headers \ excludeHeaders |-> c.Headers[k]]
             tok == getToken(toks, files, t, idpType)
             header == IF idpType # "noidp" /\ tok.err = Nil /\ tok.token # ""
                       THEN ("Authorization" :> ("Bearer " \o tok.token)) @@ copied
                       ELSE copied
         IN  [req |-> <<[Method |-> c.Method, URL |-> targetURL, Header |-> header,
                         Body |-> IF c.Method # "GET" /\ c.Method # "HEAD" THEN c.Body
                                  ELSE ""]>>,
              err |-> Nil]

\* Handler up to client.Do: the status it returns at once, or the request it sends
EgressRequest(c, toks, files, t) ==
    LET backendURL == Get(c, "X-Backend-Url")
        idpType == ToLower(IF Get(c, "X-Idp-Type") = "" THEN "noIdp"
                           ELSE Get(c, "X-Idp-Type"))
        path == IF Len(c.Query) > 0 THEN c.Path \o "?" \o c.Query ELSE c.Path
        base == IF ~HasSuffix(backendURL, "/") THEN backendURL \o "/" ELSE backendURL
        rel == IF HasPrefix(path, "/") THEN SubSeq(path, 2, Len(path)) ELSE path
        made == createHTTPRequest(c, base \o rel, idpType, toks, files, t)
    IN  IF backendURL = ""
        THEN [status |-> BadRequest, sent |-> <<>>]
        ELSE IF made.err # Nil
        THEN [status |-> InternalServerError, sent |-> <<>>]
        ELSE [status |-> 0, sent |-> made.req]

\* Handler after client.Do returned outcome o of the backend
EgressResponse(o) ==
    IF o.kind = "neterr" THEN BadGateway
    ELSE IF o.kind = "readerr" THEN InternalServerError
    ELSE o.status

\* The IDP types tokens are stored for, the tokens and the lifetimes given to
\* SaveToken (a negative lifetime is a token that has expired already)
IdpTypes == {"okta", "noidp"}
Tokens == {"t1", "t2"}
Lifetimes == {-1, 1, 2}

\* The clock stops at MaxTime
MaxTime == 2

\* Header values of an inbound egress request; "" is a header that is absent
BackendURLs == {"", "http://be.local", "http://be.local/", ":be"}
IdpHeaders == {"", "noIdp", "NOIDP", "noidp", "okta"}
InboundAuth == {"", "Bearer inbound"}

EgressHeaders(url, idp, auth) ==
    LET all == ("X-Backend-Url" :> url) @@ ("X-Idp-Type" :> idp)
               @@ ("Authorization" :> auth) @@ ("Accept" :> "application/json")
    IN  [k \in {x \in DOMAIN all : all[x] # ""} |-> all[k]]

EgressRequests ==
    {[Method |-> "GET", Path |-> "/api/x", Query |-> "", Body |-> "",
      Headers |-> EgressHeaders(url, idp, auth)]
     : url \in BackendURLs, idp \in IdpHeaders, auth \in InboundAuth}
    \cup {[Method |-> "POST", Path |-> "/api/x", Query |-> "q=1", Body |-> "{}",
           Headers |-> EgressHeaders("http://be.local", idp, auth)]
          : idp \in IdpHeaders, auth \in InboundAuth}

\* What client.Do and io.ReadAll give: no answer, an answer whose body cannot be
\* read, or a status
BackendOutcomes ==
    {[kind |-> "neterr"], [kind |-> "readerr"]}
    \cup {[kind |-> "resp", status |-> st] : st \in {StatusOK, InternalServerError}}

\* ts.SaveToken(idpType, token, expiresIn)
CallSaveToken ==
    /\ pfn = ""
    /\ \E idpType \in IdpTypes, token \in Tokens, expiresIn \in Lifetimes, writeOK \in BOOLEAN :
          LET r == SaveToken(tokens, tokenFiles, now, idpType, token, expiresIn, writeOK)
          IN  /\ pin' = [idpType |-> idpType, token |-> token, expiresIn |-> expiresIn]
              /\ pout' = [err |-> r.err]
              /\ tokens' = r.tokens
              /\ tokenFiles' = r.files
    /\ pfn' = "SaveToken"
    /\ UNCHANGED <<cfg, now, hvars, cvars>>

\* ts.ClearToken(idpType)
CallClearToken ==
    /\ pfn = ""
    /\ \E idpType \in IdpTypes :
          LET r == ClearToken(tokens, tokenFiles, idpType)
          IN  /\ pin' = [idpType |-> idpType]
              /\ pout' = [err |-> r.err]
              /\ tokens' = r.tokens
              /\ tokenFiles' = r.files
    /\ pfn' = "ClearToken"
    /\ UNCHANGED <<cfg, now, hvars, cvars>>

\* ts.TokenExists(idpType)
CallTokenExists ==
    /\ pfn = ""
    /\ \E idpType \in IdpTypes :
          /\ pin' = [idpType |-> idpType]
          /\ pout' = [exists |-> TokenExists(tokens, tokenFiles, now, idpType)]
    /\ pfn' = "TokenExists"
    /\ UNCHANGED <<cfg, evars, hvars, cvars>>

\* The egress Handler serves a request: it answers at once, or sends the request
\* it created to the backend and answers with what comes back.
CallEgressHandler ==
    /\ pfn = ""
    /\ \E c \in EgressRequests, o \in BackendOutcomes :
          LET r == EgressRequest(c, tokens, tokenFiles, now)
          IN  /\ pin' = [c |-> c]
              /\ pout' = IF r.sent = <<>> THEN r
                         ELSE [status |-> EgressResponse(o), sent |-> r.sent]
    /\ pfn' = "Handler"
    /\ UNCHANGED <<cfg, evars, hvars, cvars>>

\* Time passes between two calls
Tick ==
    /\ pfn = ""
    /\ now < MaxTime
    /\ now' = now + 1
    /\ UNCHANGED <<cfg, pvars, tokens, tokenFiles, hvars, cvars>>

NextEgress ==
    \/ CallSaveToken
    \/ CallClearToken
    \/ CallTokenExists
    \/ CallEgressHandler
    \/ Tick
    \/ FnReturn

SpecEgress == InitFn /\ [][NextEgress]_vars

\* The egress request in pin is in noIdp mode: no X-Idp-Type header, or one that is
\* "noIdp" in some letter case
NoIdpMode == EqualFold(Get(pin.c, "X-Idp-Type"), "noIdp") \/ "X-Idp-Type" \notin DOMAIN pin.c.Headers

\* C24: when X-Idp-Type is absent or is "noIdp" in any letter case, the request
\* Handler sends to the backend has no Authorization header.
C24_NoIdpSendsNoAuthorization ==
    (pfn = "Handler" /\ NoIdpMode /\ pout.sent # <<>>)
    => "Authorization" \notin DOMAIN pout.sent[1].Header

\* C24 as the code has it: in noIdp mode Handler adds no Authorization header of its
\* own, whatever the token storage holds; the request to the backend has the
\* Authorization header of the inbound request, and none when that had none.
C24_NoIdpAddsNoAuthorization ==
    (pfn = "Handler" /\ NoIdpMode /\ pout.sent # <<>>)
    => /\ "Authorization" \in DOMAIN pout.sent[1].Header
            <=> "Authorization" \in DOMAIN pin.c.Headers
       /\ "Authorization" \in DOMAIN pin.c.Headers
            => pout.sent[1].Header["Authorization"] = pin.c.Headers["Authorization"]

\* C24 witness: a token is stored under "noidp", a request with X-Idp-Type: NOIDP
\* and no Authorization header was sent on, without an Authorization header.
C24_Witness ==
    /\ pfn = "Handler"
    /\ Get(pin.c, "X-Idp-Type") = "NOIDP"
    /\ "Authorization" \notin DOMAIN pin.c.Headers
    /\ "noidp" \in DOMAIN tokens /\ tokens["noidp"].expiresAt > now
    /\ pout.sent # <<>>
    /\ "Authorization" \notin DOMAIN pout.sent[1].Header

\* The token storage holds an entry for the IDP type in pin that has not expired
StoredUnexpired == pin.idpType \in DOMAIN tokens /\ tokens[pin.idpType].expiresAt > now

\* C30: after any sequence of SaveToken, ClearToken and ticks of the clock,
\* TokenExists(idp) is true only if a token for idp is stored and has not expired.
C30_TokenExistsOnlyIfUnexpired ==
    (pfn = "TokenExists" /\ pout.exists) => StoredUnexpired

\* C30 witness: the entry of the IDP type has expired, its file is still in
\* tokenDir, and TokenExists answered true.
C30_Witness ==
    /\ pfn = "TokenExists"
    /\ pin.idpType \in DOMAIN tokens
    /\ tokens[pin.idpType].expiresAt <= now
    /\ pin.idpType \in DOMAIN tokenFiles
    /\ pout.exists

\* What TokenExists answers: true exactly when the entry has not expired or the
\* file SaveToken wrote is still there; after ClearToken, which removes both, false.
C30_TokenExistsInMemoryOrOnFile ==
    pfn = "TokenExists" => (pout.exists <=> (StoredUnexpired \/ pin.idpType \in DOMAIN tokenFiles))

(***************************************************************************)
(* The query string of the inbound request.                                *)
(***************************************************************************)
\* URL u without its query string
PathOnly(u) == IF Contains(u, "?") THEN SubSeq(u, 1, Index(u, "?") - 1) ELSE u

\* What the check of goroutine c selects in the loaded configuration for a request
\* with the method of its request and the URL u: the resources, or the rules, its
\* matching loop can end with (none is <<>>)
SelectedFor(c, u) ==
    IF c = "coarse"
    THEN {IF m.ok THEN <<m.resource>> ELSE <<>> : m \in MatchResource(cfg[1].Coarse, u)}
    ELSE {IF m.ok THEN <<m.rule>> ELSE <<>>
          : m \in MatchRule(cfg[1].FineGrain, cargs[c].req.Method, u)}

\* C25: the checks Handler starts select, for a request with a query string, the
\* coarse resource and the fine-grained rule they select for the same request
\* without it; the fine-grained check does not skip a request as "no matching rule"
\* when the request without the query string has a rule.
C25_QueryStringKeepsSelection ==
    \A c \in Goroutines :
        (cfg # <<>> /\ cpc[c] # "idle") =>
            /\ SelectedFor(c, cargs[c].req.Path) = SelectedFor(c, PathOnly(cargs[c].req.Path))
            /\ (c = "fine" /\ ret[c] = <<Ret(TRUE, "fine-grain check skipped (no matching rule)", Nil)>>)
                  => SelectedFor(c, PathOnly(cargs[c].req.Path)) = {<<>>}

\* C25 witness: the fine-grained section is on, Handler got "post /a?x=1", and the
\* fine-grained check returned "skipped (no matching rule)" although "/a" has the
\* rule of "[/a:POST]".
C25_Witness ==
    /\ cfg # <<>>
    /\ ~SectionOff("fine")
    /\ cfn["fine"] = "CheckFineGrain"
    /\ cargs["fine"].req.Method = "post"
    /\ cargs["fine"].req.Path = "/a?x=1"
    /\ ret["fine"] = <<Ret(TRUE, "fine-grain check skipped (no matching rule)", Nil)>>
    /\ SelectedFor("fine", "/a") = {<<FineMap["[/a:POST]"]>>}

(***************************************************************************)
(* Type errors and lengths in extraction.                                  *)
(***************************************************************************)
\* The field names of path p ("" for no name at all gives none)
Names(p) == IF p = "" THEN <<>> ELSE Split(p, ".")

\* The path in pin without "$", its part before "[*]" and its part after it
PinPath == TrimPrefix(TrimPrefix(pin.jsonPath, "$"), ".")
PinBase == Names(Split(PinPath, "[*]")[1])
PinSuffix == Names(TrimPrefix(Split(PinPath, "[*]")[2], "."))

\* Walking the names from the i-th on, starting in value v, steps into a value that
\* is not an object
RECURSIVE HitsNonObject(_, _, _)
HitsNonObject(v, names, i) ==
    IF i > Len(names) THEN FALSE
    ELSE IF v.t # "obj" THEN TRUE
    ELSE IF names[i] \notin DOMAIN v.v THEN FALSE
    ELSE HitsNonObject(v.v[names[i]], names, i + 1)

\* The value the names lead to from v, <<>> if they lead nowhere
RECURSIVE Reach(_, _, _)
Reach(v, names, i) ==
    IF i > Len(names) THEN <<v>>
    ELSE IF v.t # "obj" \/ names[i] \notin DOMAIN v.v THEN <<>>
    ELSE Reach(v.v[names[i]], names, i + 1)

\* The base of the wildcard path in pin leads to an array
BaseIsArray == Reach(pin.data, PinBase, 1) # <<>> /\ Reach(pin.data, PinBase, 1)[1].t = "arr"

BaseArray == Reach(pin.data, PinBase, 1)[1].v

\* C26: extractValueFromPath returns an error whenever a step of the path leads into
\* a value that is not an object, on a simple or nested path, on the way to the
\* array of a wildcard path and on the sub-field path after "[*]" inside an element,
\* and whenever the base of a wildcard path is a value that is not an array.
C26_TypeErrorsAreReported ==
    pfn = "extractValueFromPath" =>
        IF ~Contains(PinPath, "[*]")
        THEN HitsNonObject(pin.data, Names(PinPath), 1) => pout.err # Nil
        ELSE /\ HitsNonObject(pin.data, PinBase, 1) => pout.err # Nil
             /\ (Reach(pin.data, PinBase, 1) # <<>> /\ ~BaseIsArray) => pout.err # Nil
             /\ (BaseIsArray /\ \E i \in 1..Len(BaseArray) :
                                   \/ BaseArray[i].t # "obj"
                                   \/ HitsNonObject(BaseArray[i], PinSuffix, 1))
                   => pout.err # Nil

\* C26 witness: "$.arr[*].g.h" was applied to two elements whose g is the string
\* "x", and the two strings came back without error.
C26_Witness ==
    /\ pfn = "extractValueFromPath"
    /\ pin.jsonPath = "$.arr[*].g.h"
    /\ pin.data = ArrayBody(2)
    /\ pout = [val |-> JArr(<<JStr("x"), JStr("x")>>), err |-> Nil]

\* The part of C26 that holds: a step into a non-object on a simple or nested path
\* or on the way to the array, a wildcard base that is no array, and an array
\* element that is no object are errors.
C26_TypeErrorsOutsideSubFields ==
    pfn = "extractValueFromPath" =>
        IF ~Contains(PinPath, "[*]")
        THEN HitsNonObject(pin.data, Names(PinPath), 1) => pout.err # Nil
        ELSE /\ HitsNonObject(pin.data, PinBase, 1) => pout.err # Nil
             /\ (Reach(pin.data, PinBase, 1) # <<>> /\ ~BaseIsArray) => pout.err # Nil
             /\ (BaseIsArray /\ \E i \in 1..Len(BaseArray) : BaseArray[i].t # "obj")
                   => pout.err # Nil

\* C27: an array-wildcard extraction that succeeds returns as many values as the
\* source array has elements, also when elements lack the projected field and when
\* nothing follows "[*]".
C27_WildcardLengthIsArrayLength ==
    (pfn = "extractValueFromPath" /\ Contains(PinPath, "[*]") /\ pout.err = Nil)
    => /\ BaseIsArray
       /\ pout.val.t = "arr"
       /\ Len(pout.val.v) = Len(BaseArray)

\* C27 witness: "$.arr[*].h" was applied to three elements, none of which has h, and
\* the extraction succeeded with no value at all.
C27_Witness ==
    /\ pfn = "extractValueFromPath"
    /\ pin.jsonPath = "$.arr[*].h"
    /\ pin.data = ArrayBody(MaxArrayLen)
    /\ pout = [val |-> JArr(<<>>), err |-> Nil]

\* The part of C27 that holds: a successful wildcard extraction returns at most one
\* value per element, and exactly the elements themselves, in order, when nothing
\* follows "[*]".
C27_WildcardLengthAtMostArrayLength ==
    (pfn = "extractValueFromPath" /\ Contains(PinPath, "[*]") /\ pout.err = Nil)
    => /\ BaseIsArray
       /\ pout.val.t = "arr"
       /\ Len(pout.val.v) <= Len(BaseArray)
       /\ PinSuffix = <<>> => pout.val.v = BaseArray

(***************************************************************************)
(* The segment "**".                                                       *)
(***************************************************************************)
\* The position of the first "**" among the segments of the pattern in pin, 0 if
\* there is none
FirstDoubleStar ==
    LET ps == Segments(pin.pattern)
        at == {i \in 1..Len(ps) : ps[i] = "**"}
    IN  IF at = {} THEN 0 ELSE CHOOSE i \in at : \A j \in at : i <= j

\* The pattern segments before the first "**" match the path segments at their
\* positions, by equality or as "*"
PrefixMatches ==
    LET ps == Segments(pin.pattern)
        ss == Segments(pin.path)
    IN  \A k \in 1..(FirstDoubleStar - 1) : k <= Len(ss) /\ (ps[k] = "*" \/ ps[k] = ss[k])

\* The increments of the pattern segments before the first "**"
PrefixScore ==
    LET ps == Segments(pin.pattern)
        before == 1..(FirstDoubleStar - 1)
    IN  WildcardBonus * Cardinality({k \in before : ps[k] = "*"})
        + LiteralBonus * Cardinality({k \in before : ps[k] # "*"})

\* C28: for a pattern with a segment "**", pathMatch reports a match exactly when
\* the segments before it match the path segments at their positions, whatever
\* follows in the path and in the pattern, and the specificity of the match is the
\* sum of the increments of those segments plus 1.
C28_DoubleStarMatchesRest ==
    (pfn = "pathMatch" /\ FirstDoubleStar > 0)
    => /\ pout.matched <=> PrefixMatches
       /\ pout.matched => pout.spec = PrefixScore + 1

\* C28 with the exact match set apart: the specificity is the sum plus 1 unless the
\* path is the pattern text itself, for which pathMatch returns the specificity of
\* an exact match.
C28_DoubleStarMatchesRestUnlessExact ==
    (pfn = "pathMatch" /\ FirstDoubleStar > 0)
    => /\ pout.matched <=> PrefixMatches
       /\ (pout.matched /\ pin.path # pin.pattern) => pout.spec = PrefixScore + 1
       /\ pin.path = pin.pattern => pout.spec = Len(pin.path) + ExactBonus

\* C28 witness: "/a/**/c" matched "/a", with no path segment left for "**" and "c"
\* ignored, at specificity 6.
C28_Witness ==
    /\ pfn = "pathMatch"
    /\ pin.pattern = "/a/**/c"
    /\ pin.path = "/a"
    /\ pout = [matched |-> TRUE, spec |-> 6]

(***************************************************************************)
(* The response of Handler and its goroutines.                             *)
(***************************************************************************)
\* Tuple r of a check is an error or a denial
Failed(r) == r.err # Nil \/ ~r.allow

\* The message of the 403 for the failed tuple r of the check named tier
RejectionOf(tier, r) ==
    IF r.err # Nil THEN tier \o " authorization error: " \o r.err
    ELSE IF r.reason = "" THEN tier \o " authorization denied"
    ELSE r.reason

\* The channel goroutine c sends its result on
ChannelOf(c) == IF c = "coarse" THEN coarseCh ELSE fineCh

\* C29: the response of Handler is determined by the two tuples the checks returned,
\* whichever goroutine sent first: the coarse error or denial when the coarse check
\* failed, else the fine-grained one when that failed, else the request is proxied;
\* a goroutine that has its result always finds room in its channel, and when
\* Handler has returned both goroutines have ended.
C29_ResponseFromTuplesNoGoroutineBlocked ==
    /\ (hpc = "done" /\ response.status # StatusUnauthorized) =>
          /\ Failed(ret["coarse"][1]) =>
                response = [status |-> StatusForbidden,
                            msg |-> RejectionOf("coarse", ret["coarse"][1])]
          /\ (~Failed(ret["coarse"][1]) /\ Failed(ret["fine"][1])) =>
                response = [status |-> StatusForbidden,
                            msg |-> RejectionOf("fine-grain", ret["fine"][1])]
          /\ (~Failed(ret["coarse"][1]) /\ ~Failed(ret["fine"][1])) =>
                response.status = StatusOK /\ proxied = 1
    /\ \A c \in Goroutines : cpc[c] = "returned" => Len(ChannelOf(c)) < ChanCap
    /\ hpc = "done" => \A c \in Goroutines : cpc[c] \in {"idle", "exited"}

\* C29 witness: the fine-grained check sent its error first, the coarse check its
\* denial after it, and Handler answered with the coarse denial.
C29_Witness ==
    /\ hpc = "done"
    /\ order = <<"fine", "coarse">>
    /\ ret["fine"][1].err # Nil
    /\ ret["coarse"][1].err = Nil /\ ~ret["coarse"][1].allow
    /\ response = [status |-> StatusForbidden, msg |-> RejectionOf("coarse", ret["coarse"][1])]

====
